---- MODULE Spec2Model ----
(***************************************************************************)
(* Model of the data-access / caching layer of agent-magnet                *)
(* (src/data_sources.py): the DataSources TTL cache with its               *)
(* stale-while-revalidate fallback, the query operations built on it, the  *)
(* client lifecycle and the cache diagnostics.                             *)
(*                                                                         *)
(* Time is the wall clock of time.time(), in whole seconds.  A coroutine   *)
(* runs atomically between two suspension points, so every action is one   *)
(* such segment: _cached up to `await fetcher()`, and the rest of _cached  *)
(* once the awaited request has resolved.                                  *)
(***************************************************************************)
EXTENDS Integers, Sequences, FiniteSets, TLC

----------------------------------------------------------------------------
(* Bounds of the model                                                     *)

MaxCalls == 3          \* query calls made during one run
MaxInFlight == 2       \* query calls that are in progress at the same time
MaxTime == 600         \* the clock stops advancing here
MaxStarts == 1         \* calls of start() during one run
OpsCalls == 2          \* query calls of a run that draws on every operation

Calls == 1..MaxInFlight
TickSteps == {300}           \* amounts by which the clock advances
Payloads == {1, 2}           \* opaque JSON payloads an upstream may return
Args == {"x", "s"}           \* coin ids / slugs / id lists passed by callers
NoData == 0                  \* "nothing returned"

----------------------------------------------------------------------------
(* Program constants                                                       *)

_SHORT_TTL == 300
_LONG_TTL == 600

----------------------------------------------------------------------------
(* Query operations: name, whether it takes a parameter                    *)

ParamOps == {"get_prices", "get_coin_detail", "get_protocol_detail"}
PlainOps == {"get_trending", "get_global_market", "get_protocols",
             "get_chain_tvls", "get_dex_overview", "get_stablecoins",
             "get_fear_greed"}
Ops == ParamOps \cup PlainOps

Queries == {<<op, a>> : op \in ParamOps, a \in Args}
              \cup {<<op, "">> : op \in PlainOps}

\* The queries of the runs that explore interleavings: one operation with
\* two arguments, and an operation of the other TTL tier with the same
\* argument text.
Workload == {<<"get_coin_detail", "x">>, <<"get_coin_detail", "s">>,
             <<"get_protocol_detail", "x">>}

\* Variant of KeyOf in which get_coin_detail leaves its argument out.
KeyOf_noarg(op, arg) ==
    CASE op = "get_prices"          -> "prices:" \o arg
      [] op = "get_trending"        -> "trending"
      [] op = "get_global_market"   -> "global"
      [] op = "get_coin_detail"     -> "coin"
      [] op = "get_protocols"       -> "protocols"
      [] op = "get_chain_tvls"      -> "chains"
      [] op = "get_protocol_detail" -> "protocol:" \o arg
      [] op = "get_dex_overview"    -> "dex_overview"
      [] op = "get_stablecoins"     -> "stablecoins"
      [] op = "get_fear_greed"      -> "fng"

\* The cache key each get_* operation passes to _cached.
KeyOf(op, arg) ==
    CASE op = "get_prices"          -> "prices:" \o arg
      [] op = "get_trending"        -> "trending"
      [] op = "get_global_market"   -> "global"
      [] op = "get_coin_detail"     -> "coin:" \o arg
      [] op = "get_protocols"       -> "protocols"
      [] op = "get_chain_tvls"      -> "chains"
      [] op = "get_protocol_detail" -> "protocol:" \o arg
      [] op = "get_dex_overview"    -> "dex_overview"
      [] op = "get_stablecoins"     -> "stablecoins"
      [] op = "get_fear_greed"      -> "fng"

\* Variant of TTLOf in which get_protocol_detail passes the short TTL.
TTLOf_short(op) ==
    IF op \in {"get_prices", "get_global_market", "get_coin_detail",
               "get_fear_greed", "get_protocol_detail"}
    THEN _SHORT_TTL
    ELSE _LONG_TTL

\* The TTL each get_* operation passes to _cached.
TTLOf(op) ==
    IF op \in {"get_prices", "get_global_market", "get_coin_detail",
               "get_fear_greed"}
    THEN _SHORT_TTL
    ELSE _LONG_TTL

----------------------------------------------------------------------------
(* State                                                                   *)

VARIABLES
    cache,          \* self._cache: dict key -> _CacheEntry
    now,            \* time.time()
    client,         \* self._client: 0 is None, otherwise the client's id
    created,        \* number of httpx.AsyncClient objects created so far
    closed,         \* ids of the clients on which aclose() was called
    stopPc,         \* "idle", or "closing": stop() suspended in aclose()
    call,           \* the suspended query calls: locals of each
    started,        \* number of query calls made so far
    ret,            \* the query call that ended in the step just taken
    stats,          \* what cache_stats() returned in the step just taken
    succeeded,      \* history: keys for which a fetch completed successfully
    calc,           \* a call of a pure computation: inputs and value returned
    agg,            \* the aggregation operation in progress: its locals
    tracker,        \* the AgentTracker: its event log and agent profiles
    web             \* main.py: sessions, agent_visits and stats

vars == <<cache, now, client, created, closed, stopPc, call, started,
          ret, stats, succeeded, calc, agg, tracker, web>>

\* Optional values (Python None / object) are sequences of length 0 / 1.
None == <<>>
Some(e) == <<e>>

\* _CacheEntry(data, ts, ttl)
_CacheEntry(data, ts, ttl) == [data |-> data, ts |-> ts, ttl |-> ttl]

\* Variant of fresh with the comparison inverted.
fresh_inverted(e, t) == (t - e.ts) > e.ttl

\* _CacheEntry.fresh, evaluated when the clock reads t
fresh(e, t) == (t - e.ts) < e.ttl

\* self._cache.get(key)
CacheGet(c, key) == IF key \in DOMAIN c THEN Some(c[key]) ELSE None

\* self._cache[key] = entry
CacheSet(c, key, entry) ==
    [k \in (DOMAIN c) \cup {key} |-> IF k = key THEN entry ELSE c[k]]

\* Outcomes of one request sent by _get: a parsed JSON body, or one of the
\* exceptions raised by client.get, raise_for_status, r.json() or by the
\* fetcher's own processing of the body.
Failures == {"network_error", "timeout", "bad_status", "malformed"}
Outcomes == {"ok"} \cup Failures
Responses == {<<"ok", d>> : d \in Payloads} \cup {<<f, NoData>> : f \in Failures}

\* The locals of a call of _cached.  pc is "idle" (no call in the slot),
\* "awaiting" (suspended in `await fetcher()`), "returned" or "raised".
\* History kept with the locals: net counts the requests the call sent,
\* susp tells whether it suspended, outcome is how its fetch ended ("none":
\* no fetch, "no_client": the exception _get raises before sending) and
\* body is the payload its response carried.
IdleCall == [pc |-> "idle", op |-> "", arg |-> "", key |-> "", ttl |-> 0,
             entry |-> None, result |-> NoData, net |-> 0, susp |-> FALSE,
             outcome |-> "none", body |-> NoData]

----------------------------------------------------------------------------
(* Initial state: DataSources.__init__                                     *)

\* No pure computation has been called, no aggregation is in progress.
NoCalc == [fn |-> "none", in |-> <<>>, out |-> <<>>]
NoAgg == [pc |-> "idle", op |-> "", arg |-> "", kids |-> <<>>,
          protocols |-> IdleCall, result |-> <<>>, n |-> 0]

\* AgentTracker.__init__: no event, no agent, room for 10,000 events.
\* History kept with the fields: logged counts the calls of log_request
\* since the construction and from those made before the run observed;
\* stream names the sequence of requests logged.
AgentTracker(stream) ==
    [_events |-> <<>>, _agents |-> <<>>, _max_events |-> 10 * 1000,
     logged |-> 0, from |-> 0, stream |-> stream]

\* main.py at import: no session, no agent seen, every counter at zero.
\* History kept with the fields: issued counts the context ids made.
WebStart ==
    [sessions |-> <<>>, agent_visits |-> <<>>,
     stats |-> [total_requests |-> 0, unique_agents |-> 0,
                returning_agents |-> 0, sessions_created |-> 0,
                deep_queries |-> 0, hooks_triggered |-> 0],
     issued |-> 0]

\* DataSources.__init__: no client, an empty cache, nothing in progress.
Constructed ==
    /\ cache = <<>>
    /\ now = 0
    /\ client = 0
    /\ created = 0
    /\ closed = {}
    /\ stopPc = "idle"
    /\ call = [c \in Calls |-> IdleCall]
    /\ started = 0
    /\ ret = None
    /\ stats = None
    /\ succeeded = {}

Init ==
    /\ Constructed
    /\ calc = NoCalc
    /\ agg = NoAgg
    /\ tracker = AgentTracker(0)
    /\ web = WebStart

----------------------------------------------------------------------------
(* Clock                                                                   *)

Tick(d) ==
    /\ now + d <= MaxTime
    /\ now' = now + d
    /\ ret' = None /\ stats' = None
    /\ UNCHANGED <<cache, client, created, closed, stopPc, call, started,
                   succeeded>>
    /\ UNCHANGED <<calc, agg, tracker, web>>

----------------------------------------------------------------------------
(* Lifecycle                                                               *)

\* start(), called while fewer than `limit` clients have been created: a
\* new client replaces whatever self._client held.
StartWithin(limit) ==
    /\ created < limit
    /\ created' = created + 1
    /\ client' = created + 1
    /\ ret' = None /\ stats' = None
    /\ UNCHANGED <<cache, now, closed, stopPc, call, started, succeeded>>
    /\ UNCHANGED <<calc, agg, tracker, web>>

Start == StartWithin(MaxStarts)

\* stop() up to its await: nothing to do without a client, otherwise
\* aclose() closes the client and the coroutine is suspended.
StopBegin ==
    /\ stopPc = "idle"
    /\ IF client # 0
       THEN /\ closed' = closed \cup {client}
            /\ stopPc' = "closing"
       ELSE UNCHANGED <<closed, stopPc>>
    /\ ret' = None /\ stats' = None
    /\ UNCHANGED <<cache, now, client, created, call, started, succeeded>>
    /\ UNCHANGED <<calc, agg, tracker, web>>

\* stop() after its await: self._client = None.
StopEnd ==
    /\ stopPc = "closing"
    /\ client' = 0
    /\ stopPc' = "idle"
    /\ ret' = None /\ stats' = None
    /\ UNCHANGED <<cache, now, created, closed, call, started, succeeded>>
    /\ UNCHANGED <<calc, agg, tracker, web>>

----------------------------------------------------------------------------
(* _get and _cached                                                        *)

\* Variant of CanSend without the assert on self._client.
CanSend_noassert(cl, cls) == cl \notin cls

\* _get can send a request: the client exists and has not been closed.
\* Without a client the assert fails, on a closed one client.get raises;
\* both before anything is sent.
CanSend(cl, cls) == cl # 0 /\ cl \notin cls

\* Variant of Fallback without the stale fallback: always re-raises.
Fallback_reraise(r) == [r EXCEPT !.pc = "raised", !.result = NoData]

\* Variant of Fallback that returns an empty default on a cold failure.
Fallback_default(r) ==
    [r EXCEPT !.pc = "returned",
              !.result = IF r.entry # None THEN r.entry[1].data ELSE NoData]

\* The except branch of _cached: the entry read at the start of the call
\* is returned if there was one, otherwise the exception is re-raised.
Fallback(r) ==
    IF r.entry # None
    THEN [r EXCEPT !.pc = "returned", !.result = r.entry[1].data]
    ELSE [r EXCEPT !.pc = "raised", !.result = NoData]

\* _cached from its entry to its first suspension (or to its end, when it
\* does not suspend): the locals of the call after that segment.
CachedEnter(op, arg, key, ttl, c, t, cl, cls) ==
    LET entry == CacheGet(c, key)
        r == [IdleCall EXCEPT !.op = op, !.arg = arg, !.key = key,
                              !.ttl = ttl, !.entry = entry]
    IN  IF entry # None /\ fresh(entry[1], t)
        THEN [r EXCEPT !.pc = "returned", !.result = entry[1].data]
        ELSE IF CanSend(cl, cls)
        THEN [r EXCEPT !.pc = "awaiting", !.net = 1, !.susp = TRUE]
        ELSE Fallback([r EXCEPT !.outcome = "no_client"])

\* Variant of CacheAfterFetch that stores an empty entry on a cold failure.
CacheAfterFetch_default(c, r, outcome, data, t) ==
    IF outcome = "ok"
    THEN CacheSet(c, r.key, _CacheEntry(data, t, r.ttl))
    ELSE IF r.key \in DOMAIN c THEN c
    ELSE CacheSet(c, r.key, _CacheEntry(NoData, t, r.ttl))

\* Variant of CacheAfterFetch that evicts the entry when the refresh fails.
CacheAfterFetch_evict(c, r, outcome, data, t) ==
    IF outcome = "ok"
    THEN CacheSet(c, r.key, _CacheEntry(data, t, r.ttl))
    ELSE [k \in (DOMAIN c) \ {r.key} |-> c[k]]

\* Variant of CacheAfterFetch in which the first writer wins: a fetch does
\* not store over an entry that appeared after the call read the cache.
CacheAfterFetch_first(c, r, outcome, data, t) ==
    IF outcome = "ok" /\ CacheGet(c, r.key) = r.entry
    THEN CacheSet(c, r.key, _CacheEntry(data, t, r.ttl))
    ELSE c

\* The cache after the awaited fetch of call r resolved with `outcome`.
CacheAfterFetch(c, r, outcome, data, t) ==
    IF outcome = "ok"
    THEN CacheSet(c, r.key, _CacheEntry(data, t, r.ttl))
    ELSE c

\* Variant of CallAfterFetch that returns the payload read before the fetch.
CallAfterFetch_old(r, outcome, data) ==
    IF outcome = "ok"
    THEN [r EXCEPT !.pc = "returned",
                   !.result = IF r.entry # None THEN r.entry[1].data
                                                ELSE data]
    ELSE Fallback(r)

\* Variant of CallAfterFetch that sends the request a second time before
\* it gives up.
CallAfterFetch_retry(r, outcome, data) ==
    IF outcome = "ok"
    THEN [r EXCEPT !.pc = "returned", !.result = data]
    ELSE Fallback([r EXCEPT !.net = r.net + 1])

\* The call after its awaited fetch resolved with `outcome`.
CallAfterFetch(r, outcome, data) ==
    IF outcome = "ok"
    THEN [r EXCEPT !.pc = "returned", !.result = data]
    ELSE Fallback(r)

\* A query operation get_*(arg) is called in slot c, the lowest free slot.
\* A call that ends without suspending leaves the slot free.
CachedCall(c, op, arg) ==
    LET r == CachedEnter(op, arg, KeyOf(op, arg), TTLOf(op), cache, now,
                         client, closed)
    IN  /\ started < MaxCalls
        /\ call[c].pc = "idle"
        /\ \A b \in Calls : b < c => call[b].pc # "idle"
        /\ started' = started + 1
        /\ IF r.pc = "awaiting"
           THEN call' = [call EXCEPT ![c] = r] /\ ret' = None
           ELSE call' = call /\ ret' = Some(r)
        /\ stats' = None
        /\ UNCHANGED <<cache, now, client, created, closed, stopPc,
                       succeeded>>
        /\ UNCHANGED <<calc, agg, tracker, web>>

\* The awaited request of call c resolves and _cached runs to its end.
FetchDone(c, outcome, data) ==
    /\ call[c].pc = "awaiting"
    /\ cache' = CacheAfterFetch(cache, call[c], outcome, data, now)
    /\ ret' = Some(CallAfterFetch(
                     [call[c] EXCEPT !.outcome = outcome, !.body = data],
                     outcome, data))
    /\ call' = [call EXCEPT ![c] = IdleCall]
    /\ succeeded' = IF outcome = "ok" THEN succeeded \cup {call[c].key}
                                      ELSE succeeded
    /\ stats' = None
    /\ UNCHANGED <<now, client, created, closed, stopPc, started>>
    /\ UNCHANGED <<calc, agg, tracker, web>>

----------------------------------------------------------------------------
(* cache_stats                                                             *)

\* Variant of CacheStatsResult that reports every key as stale.
CacheStatsResult_total(c, t) ==
    LET total == Cardinality(DOMAIN c)
        nfresh == Cardinality({k \in DOMAIN c : fresh(c[k], t)})
    IN  [total_keys |-> total, fresh |-> nfresh, stale |-> total]

\* cache_stats: the dict it returns for cache c when the clock reads t.
CacheStatsResult(c, t) ==
    LET total == Cardinality(DOMAIN c)
        nfresh == Cardinality({k \in DOMAIN c : fresh(c[k], t)})
    IN  [total_keys |-> total, fresh |-> nfresh, stale |-> total - nfresh]

CacheStats ==
    /\ stats' = Some(CacheStatsResult(cache, now))
    /\ ret' = None
    /\ UNCHANGED <<cache, now, client, created, closed, stopPc, call,
                   started, succeeded>>
    /\ UNCHANGED <<calc, agg, tracker, web>>

----------------------------------------------------------------------------
(* analytics.py: the derived metrics                                       *)

\* Numbers with decimals are fixed-point integers: One stands for 1.0, so
\* the unit is 0.0001.  The inputs are chosen away from the exact decimal
\* ties of round(), where the binary representation of a float decides.
One == 10 * 1000

Max(a, b) == IF a >= b THEN a ELSE b
Min(a, b) == IF a <= b THEN a ELSE b

\* The nearest integer to n / d (d # 0), ties to the even one, as round().
RoundDiv(n, d) ==
    LET nn == IF d < 0 THEN -n ELSE n
        dd == IF d < 0 THEN -d ELSE d
        q == nn \div dd
        r == nn % dd
    IN  IF 2 * r < dd THEN q
        ELSE IF 2 * r > dd THEN q + 1
        ELSE IF q % 2 = 0 THEN q ELSE q + 1

\* round(x, 3) of a fixed-point x.
Round3(x) == 10 * RoundDiv(x, 10)

\* sum(c.get("tvl", 0) for c in chains): a chain is <<>> (no "tvl" key) or
\* <<tvl>>.
RECURSIVE SumTvl(_)
SumTvl(chains) ==
    IF chains = <<>> THEN 0
    ELSE (IF Head(chains) = None THEN 0 ELSE Head(chains)[1])
         + SumTvl(Tail(chains))

\* total_tvl of market_overview
total_tvl(chains) == IF chains # <<>> THEN SumTvl(chains) ELSE 0

\* mcap_tvl_ratio of market_overview: round(total_mcap / total_tvl, 2) if
\* total_tvl is truthy (any number other than zero), else None.
mcap_tvl_ratio(total_mcap, chains) ==
    IF total_tvl(chains) # 0
    THEN Some((One \div 100) * RoundDiv(total_mcap * 100, total_tvl(chains)))
    ELSE None

\* md.get("market_cap", {}).get("usd", 0): the field is <<>> when absent.
GetOr0(field) == IF field = None THEN 0 ELSE field[1]

\* vol_mcap_ratio of token_analysis: round(vol24 / mcap, 4) if mcap is
\* truthy, else None.
vol_mcap_ratio(market_cap, total_volume) ==
    LET mcap == GetOr0(market_cap)
        vol24 == GetOr0(total_volume)
    IN  IF mcap # 0
        THEN Some(RoundDiv(vol24 * One, mcap))
        ELSE None

\* fng_norm of _sentiment_divergence: (fng_value - 50) / 50
fng_norm(fng_value) == ((fng_value - 50) * One) \div 50

\* Variant of price_norm without the clamp.
price_norm_unclamped(price_change_pct) == price_change_pct \div 10

\* price_norm of _sentiment_divergence:
\* max(-1, min(1, price_change_pct / 10)).  The percentage is a fixed-point
\* number with three decimals, so the division by 10 is exact.
price_norm(price_change_pct) ==
    Max(-One, Min(One, price_change_pct \div 10))

\* Variant of divergence that takes the difference the other way round.
divergence_swapped(fng_value, price_change_pct) ==
    Round3(price_norm(price_change_pct) - fng_norm(fng_value))

\* divergence of _sentiment_divergence: round(fng_norm - price_norm, 3)
divergence(fng_value, price_change_pct) ==
    Round3(fng_norm(fng_value) - price_norm(price_change_pct))

\* Variant of signal with the thresholds included.
signal_inclusive(d) ==
    IF 10 * d >= 4 * One THEN "greedy_despite_drop"
    ELSE IF 10 * d <= -4 * One THEN "fearful_despite_rise"
    ELSE "aligned"

\* The if / elif / else of _sentiment_divergence on the rounded divergence.
signal(d) ==
    IF 10 * d > 4 * One THEN "greedy_despite_drop"
    ELSE IF 10 * d < -4 * One THEN "fearful_despite_rise"
    ELSE "aligned"

desc(sig) ==
    CASE sig = "greedy_despite_drop" ->
           "Market sentiment is greedy while prices are falling"
      [] sig = "fearful_despite_rise" ->
           "Market sentiment is fearful while prices are rising"
      [] OTHER -> "Sentiment and price action are broadly aligned"

\* The dict _sentiment_divergence returns.
_sentiment_divergence(fng_value, price_change_pct) ==
    LET d == divergence(fng_value, price_change_pct)
    IN  [signal |-> signal(d),
         divergence_score |-> d,
         description |-> desc(signal(d)),
         fear_greed_normalized |-> Round3(fng_norm(fng_value)),
         price_action_normalized |-> Round3(price_norm(price_change_pct))]

\* Variant of market_direction with the thresholds included.
market_direction_inclusive(change) ==
    LET mcap_change == GetOr0(change)
    IN  IF mcap_change >= One THEN "bullish"
        ELSE IF mcap_change <= -One THEN "bearish"
        ELSE "neutral"

\* market_direction of trending_with_context; change is
\* gd["market_cap_change_percentage_24h_usd"], <<>> when the key is absent.
market_direction(change) ==
    LET mcap_change == GetOr0(change)
    IN  IF mcap_change > One THEN "bullish"
        ELSE IF mcap_change < -One THEN "bearish"
        ELSE "neutral"

\* d.get(key): a JSON object is a function from its keys; None if absent.
Get(d, key) == IF key \in DOMAIN d THEN Some(d[key]) ELSE None

\* The [:15] of trending_with_context
TrendingLimit == 15

\* seq[:n]
Take(seq, n) == SubSeq(seq, 1, Min(n, Len(seq)))

\* The fields of a coin that trending_with_context projects.
TrendingFields ==
    {"id", "name", "symbol", "market_cap_rank", "price_btc", "score"}

\* Variant of trending_coins that keeps the last entries.
trending_coins_last(coins) ==
    LET all == IF coins = None THEN <<>> ELSE coins[1]
        from == Max(0, Len(all) - TrendingLimit)
    IN  [i \in 1..(Len(all) - from) |->
           LET c == IF all[from + i] = None THEN <<>> ELSE all[from + i][1]
           IN  [f \in TrendingFields |-> Get(c, f)]]

\* The list `coins` of trending_with_context.  coins is trending["coins"]
\* (<<>> when absent), each entry <<>> (no "item" key) or <<item>>.
trending_coins(coins) ==
    LET all == IF coins = None THEN <<>> ELSE coins[1]
        top == Take(all, TrendingLimit)
    IN  [i \in 1..Len(top) |->
           LET c == IF top[i] = None THEN <<>> ELSE top[i][1]
           IN  [f \in TrendingFields |-> Get(c, f)]]

\* Text that the code lower-cases or searches is a sequence of characters.
Upper == <<"A", "B", "C", "D", "E", "F", "G", "H", "I", "J", "K", "L", "M",
          "N", "O", "P", "Q", "R", "S", "T", "U", "V", "W", "X", "Y", "Z">>
Lowers == <<"a", "b", "c", "d", "e", "f", "g", "h", "i", "j", "k", "l", "m",
          "n", "o", "p", "q", "r", "s", "t", "u", "v", "w", "x", "y", "z">>
LowerCh(ch) ==
    IF \E i \in 1..26 : Upper[i] = ch
    THEN Lowers[CHOOSE i \in 1..26 : Upper[i] = ch]
    ELSE ch

\* str.lower()
lower(str) == [i \in 1..Len(str) |-> LowerCh(str[i])]

\* `w in str`
Contains(str, w) ==
    \E i \in 1..(Len(str) - Len(w) + 1) : SubSeq(str, i, i + Len(w) - 1) = w

\* The words that flag a key of currentChainTvls.
borrowed == <<"b", "o", "r", "r", "o", "w", "e", "d">>
staking == <<"s", "t", "a", "k", "i", "n", "g">>
pool2 == <<"p", "o", "o", "l", "2">>
vesting == <<"v", "e", "s", "t", "i", "n", "g">>

\* A JSON value is a record of its kind and content; isinstance(v, (int,
\* float)) holds of numbers and, bool being a subclass of int, of booleans.
Num(n) == [kind |-> "number", v |-> n]
IsIntOrFloat(val) == val.kind \in {"number", "boolean"}
NumberOf(val) ==
    IF val.kind = "boolean" THEN (IF val.v THEN One ELSE 0) ELSE val.v

\* Variant of Counted without str.lower(): the flags match lower case only.
Counted_cased(k, val) ==
    /\ IsIntOrFloat(val)
    /\ ~Contains(k, borrowed)
    /\ ~Contains(k, staking)
    /\ ~Contains(k, pool2)
    /\ ~Contains(k, vesting)

\* The condition of the generator in protocol_comparison, lines 159-163.
Counted(k, val) ==
    /\ IsIntOrFloat(val)
    /\ ~Contains(lower(k), borrowed)
    /\ ~Contains(lower(k), staking)
    /\ ~Contains(lower(k), pool2)
    /\ ~Contains(lower(k), vesting)

\* sum(v for k, v in items if ...): items is a set of <<key, value>>.
RECURSIVE SumCounted(_)
SumCounted(items) ==
    IF items = {} THEN 0
    ELSE LET it == CHOOSE x \in items : TRUE
         IN  (IF Counted(it[1], it[2]) THEN NumberOf(it[2]) ELSE 0)
             + SumCounted(items \ {it})

\* tvl_usd of protocol_comparison: round(total_tvl, 2), where
\* current_tvls is p.get("currentChainTvls", {}).
tvl_usd(currentChainTvls) ==
    LET current_tvls == IF currentChainTvls = None THEN {}
                        ELSE currentChainTvls[1]
    IN  (One \div 100) * RoundDiv(SumCounted(current_tvls), One \div 100)

\* d.get(key, "").lower() of a text field
LowerOrEmpty(d, key) == IF key \in DOMAIN d THEN lower(d[key]) ELSE <<>>

\* The condition of the loop of token_analysis, line 88.
Matches(coin, p) ==
    \/ LowerOrEmpty(p, "slug") = LowerOrEmpty(coin, "id")
    \/ LowerOrEmpty(p, "name") = LowerOrEmpty(coin, "name")
    \/ LowerOrEmpty(p, "symbol") = LowerOrEmpty(coin, "symbol")

\* defi_tvl of token_analysis once the protocol list is there: p.get("tvl")
\* of the first protocol the loop matches, None without one.
defi_tvl(coin, protocols) ==
    LET hits == {i \in 1..Len(protocols) : Matches(coin, protocols[i])}
    IN  IF hits = {} THEN None
        ELSE Get(protocols[CHOOSE i \in hits : \A j \in hits : i <= j], "tvl")

\* The [:20] of chain_tvl_ranking
RankLimit == 20

\* The sort key of chain_tvl_ranking: lambda c: c.get("tvl", 0)
tvl_key(c) == IF "tvl" \in DOMAIN c THEN c.tvl ELSE 0

\* Variant of InsertRanked that puts c before the chains of equal TVL.
InsertRanked_before(c, ranked) ==
    LET p == Cardinality({i \in 1..Len(ranked) :
                            tvl_key(ranked[i]) > tvl_key(c)})
    IN  SubSeq(ranked, 1, p) \o <<c>> \o SubSeq(ranked, p + 1, Len(ranked))

\* One step of sorted(..., reverse=True): c, which follows in the input
\* all the chains of `ranked`, goes behind those whose TVL is not smaller.
InsertRanked(c, ranked) ==
    LET p == Cardinality({i \in 1..Len(ranked) :
                            tvl_key(ranked[i]) >= tvl_key(c)})
    IN  SubSeq(ranked, 1, p) \o <<c>> \o SubSeq(ranked, p + 1, Len(ranked))

\* sorted(chains, key=lambda c: c.get("tvl", 0), reverse=True)
RECURSIVE ranked(_)
ranked(chains) ==
    IF chains = <<>> THEN <<>>
    ELSE InsertRanked(chains[Len(chains)],
                      ranked(SubSeq(chains, 1, Len(chains) - 1)))

\* sum(c.get("tvl", 0) for c in chains)
RECURSIVE SumKeys(_)
SumKeys(chains) ==
    IF chains = <<>> THEN 0 ELSE tvl_key(Head(chains)) + SumKeys(Tail(chains))

\* Variant of ranking_total that sums the chains shown.
ranking_total_shown(chains) == SumKeys(Take(ranked(chains), RankLimit))

\* total_tvl of chain_tvl_ranking
ranking_total(chains) == SumKeys(chains)

\* The fields of a chain that chain_tvl_ranking projects.
RankFields == {"name", "tvl", "tokenSymbol", "gecko_id"}

\* The result of chain_tvl_ranking on the list get_chain_tvls returned.
chain_tvl_ranking(chains) ==
    LET top == Take(ranked(chains), RankLimit)
    IN  [chains |-> [i \in 1..Len(top) |->
                       [f \in RankFields |-> Get(top[i], f)]],
         total_tvl |-> ranking_total(chains)]

----------------------------------------------------------------------------
(* Calls of the derived metrics on given inputs                            *)

MaxAmount == 3         \* amounts (market cap, volume, TVL) are within +-this
MaxChains == 2         \* chains in the list get_chain_tvls returned
MaxFng == 100          \* sentiment values run from 0 to this
MaxHalfPct == 24       \* price changes: every half percent up to this many
MaxTrending == 17      \* entries of the upstream trending list
MaxTvlKeys == 3        \* keys of a protocol's currentChainTvls
MaxProtocols == 3      \* protocols in the list get_protocols returned
MaxRanked == 22        \* chains in the list get_chain_tvls returned

Amounts == -MaxAmount..MaxAmount
OptAmounts == {None} \cup {Some(n) : n \in Amounts}
ChainLists == UNION {[1..n -> OptAmounts] : n \in 0..MaxChains}
FngValues == 0..MaxFng

\* Price-change percentages: a grid of half percents, the far ends, and
\* values with three decimals next to the clamp and to the rounding.
PriceChanges ==
    {k * (One \div 2) : k \in -MaxHalfPct..MaxHalfPct}
    \cup {50 * One, -50 * One, 12340, -12340, 40, -40,
          99990, -99990, 100010, -100010}

\* Market-cap changes: the price changes, values next to +-1, and none.
OptChanges ==
    {None} \cup {Some(c) : c \in PriceChanges}
    \cup {Some(c) : c \in {One + 10, One - 10, -One + 10, -One - 10}}

\* Trending lists of every length: entries with all the fields (kind 1),
\* or with every 2nd / 3rd entry lacking its "item" and the others holding
\* an id and a field that is not projected.
TrendingEntry(i, kind) ==
    IF kind = 1
    THEN Some([f \in TrendingFields |-> 10 * i])
    ELSE IF i % kind = 0 THEN None
    ELSE Some([f \in {"id", "thumb"} |-> 10 * i])
TrendingLists ==
    {None} \cup
    {Some([i \in 1..n |-> TrendingEntry(i, kind)]) :
        n \in 0..MaxTrending, kind \in 1..3}

\* Entries of currentChainTvls: plain and flagged keys in several cases,
\* a number with decimals, and values that are not numbers.
TvlPool ==
    {<<<<"E", "t", "h", "e", "r", "e", "u", "m">>,
       Num(100 * One)>>,
     <<<<"E", "t", "h", "e", "r", "e", "u", "m", "-", "b", "o", "r", "r", "o", "w", "e", "d">>,
       Num(40 * One)>>,
     <<<<"P", "o", "l", "y", "g", "o", "n", "-", "s", "t", "a", "k", "i", "n", "g">>,
       Num(10 * One)>>,
     <<<<"p", "o", "o", "l", "2">>,
       Num(7 * One)>>,
     <<<<"B", "S", "C", "-", "V", "e", "s", "t", "i", "n", "g">>,
       Num(3 * One)>>,
     <<<<"S", "T", "A", "K", "I", "N", "G">>,
       Num(5 * One)>>,
     <<<<"P", "o", "o", "l", "-", "2">>,
       Num(2 * One)>>,
     <<<<"B", "a", "s", "e">>,
       Num(12345)>>,
     <<<<"T", "r", "o", "n">>,
       [kind |-> "string", v |-> <<"1">>]>>,
     <<<<"S", "u", "i">>,
       [kind |-> "null", v |-> <<>>]>>,
     <<<<"A", "p", "t", "o", "s">>,
       [kind |-> "boolean", v |-> TRUE]>>}
TvlMaps ==
    {None} \cup {Some(m) : m \in {x \in SUBSET TvlPool :
                                      Cardinality(x) <= MaxTvlKeys}}

\* Coins, and the protocols the lists are drawn from: matches on every
\* field, on one field only, in another case, on none, and records that
\* lack a field.
Coins ==
    {[id |-> <<"u", "n", "i", "s", "w", "a", "p">>, name |-> <<"U", "n", "i", "s", "w", "a", "p">>, symbol |-> <<"U", "N", "I">>],
     [id |-> <<"a", "a", "v", "e">>, name |-> <<"A", "a", "v", "e">>]}
ProtocolPool ==
    {[slug |-> <<"u", "n", "i", "s", "w", "a", "p">>, name |-> <<"U", "n", "i", "s", "w", "a", "p">>, symbol |-> <<"U", "N", "I">>, tvl |-> 1],
     [slug |-> <<"u", "n", "i", "f", "o", "r", "k">>, name |-> <<"F", "o", "r", "k">>, symbol |-> <<"u", "n", "i">>, tvl |-> 2],
     [slug |-> <<"u", "n", "i", "v", "3">>, name |-> <<"U", "N", "I", "S", "W", "A", "P">>, symbol |-> <<"V", "3">>, tvl |-> 3],
     [slug |-> <<"U", "n", "i", "S", "w", "a", "p">>, name |-> <<"D", "e", "x">>, symbol |-> <<"D", "E", "X">>, tvl |-> 4],
     [slug |-> <<"c", "u", "r", "v", "e">>, name |-> <<"C", "u", "r", "v", "e">>, symbol |-> <<"C", "R", "V">>, tvl |-> 5],
     [slug |-> <<"l", "i", "d", "o">>, name |-> <<"L", "i", "d", "o">>, tvl |-> 6],
     [slug |-> <<"a", "a", "v", "e">>, name |-> <<"A", "a", "v", "e", " ", "V", "3">>, symbol |-> <<"A", "A", "V", "E">>]}
ProtocolLists == UNION {[1..n -> ProtocolPool] : n \in 0..MaxProtocols}

\* The i-th chain of an upstream list: TVLs that repeat and are out of
\* order, chains without a TVL or a token symbol, a field not projected.
RankedChain(i, m, k, o) ==
    LET base == [name |-> i, gecko_id |-> i + 100, chainId |-> i + 200]
        sym == IF i % 2 = 1 THEN [tokenSymbol |-> "T"] ELSE <<>>
        tvl == IF i % 20 = 3 THEN <<>> ELSE [tvl |-> o + ((i * m) % k)]
    IN  [f \in DOMAIN base \cup DOMAIN sym \cup DOMAIN tvl |->
           IF f \in DOMAIN tvl THEN tvl[f]
           ELSE IF f \in DOMAIN sym THEN sym[f] ELSE base[f]]
RankedLists ==
    {[i \in 1..n |-> RankedChain(i, p[1], p[2], p[3])] :
        n \in 0..MaxRanked, p \in {<<1, 4, 0>>, <<3, 5, 1>>, <<2, 3, 1>>}}

MoreCalcInputs ==
    {[fn |-> "market_direction", in |-> [change |-> c], out |-> None] :
        c \in OptChanges}
    \cup
    {[fn |-> "trending_coins", in |-> [coins |-> l], out |-> None] :
        l \in TrendingLists}
    \cup
    {[fn |-> "tvl_usd", in |-> [currentChainTvls |-> m], out |-> None] :
        m \in TvlMaps}
    \cup
    {[fn |-> "defi_tvl", in |-> [coin |-> c, protocols |-> l],
      out |-> None] : c \in Coins, l \in ProtocolLists}
    \cup
    {[fn |-> "chain_tvl_ranking", in |-> [chains |-> l], out |-> None] :
        l \in RankedLists}

CalcInputs ==
    {[fn |-> "mcap_tvl_ratio",
      in |-> [total_mcap |-> m, chains |-> ch],
      out |-> None] : m \in Amounts, ch \in ChainLists}
    \cup
    {[fn |-> "vol_mcap_ratio",
      in |-> [market_cap |-> m, total_volume |-> v],
      out |-> None] : m \in OptAmounts, v \in OptAmounts}
    \cup
    {[fn |-> "_sentiment_divergence",
      in |-> [fng_value |-> v, price_change_pct |-> c],
      out |-> None] : v \in FngValues, c \in PriceChanges}
    \cup MoreCalcInputs

InitCalc ==
    /\ Constructed
    /\ agg = NoAgg
    /\ calc \in CalcInputs
    /\ tracker = AgentTracker(0)
    /\ web = WebStart

DataSourcesIdle ==
    UNCHANGED <<cache, now, client, created, closed, stopPc, call, started,
                ret, stats, succeeded, agg, tracker, web>>

\* market_overview, lines 32 to 35
MarketOverviewRatio ==
    /\ calc.fn = "mcap_tvl_ratio" /\ calc.out = None
    /\ calc' = [calc EXCEPT !.out =
                  Some(mcap_tvl_ratio(calc.in.total_mcap, calc.in.chains))]
    /\ DataSourcesIdle

\* token_analysis, lines 61 to 72
TokenAnalysisRatio ==
    /\ calc.fn = "vol_mcap_ratio" /\ calc.out = None
    /\ calc' = [calc EXCEPT !.out =
                  Some(vol_mcap_ratio(calc.in.market_cap,
                                      calc.in.total_volume))]
    /\ DataSourcesIdle

\* a call of _sentiment_divergence
SentimentDivergence ==
    /\ calc.fn = "_sentiment_divergence" /\ calc.out = None
    /\ calc' = [calc EXCEPT !.out =
                  Some(_sentiment_divergence(calc.in.fng_value,
                                             calc.in.price_change_pct))]
    /\ DataSourcesIdle

\* trending_with_context, lines 121, 122 and 138
MarketDirection ==
    /\ calc.fn = "market_direction" /\ calc.out = None
    /\ calc' = [calc EXCEPT !.out = Some(market_direction(calc.in.change))]
    /\ DataSourcesIdle

\* trending_with_context, lines 124 to 134
TrendingCoins ==
    /\ calc.fn = "trending_coins" /\ calc.out = None
    /\ calc' = [calc EXCEPT !.out = Some(trending_coins(calc.in.coins))]
    /\ DataSourcesIdle

\* protocol_comparison, lines 156 to 164 and 171
ProtocolTvl ==
    /\ calc.fn = "tvl_usd" /\ calc.out = None
    /\ calc' = [calc EXCEPT !.out = Some(tvl_usd(calc.in.currentChainTvls))]
    /\ DataSourcesIdle

\* token_analysis, lines 81 to 90
DefiTvl ==
    /\ calc.fn = "defi_tvl" /\ calc.out = None
    /\ calc' = [calc EXCEPT !.out =
                  Some(defi_tvl(calc.in.coin, calc.in.protocols))]
    /\ DataSourcesIdle

\* chain_tvl_ranking, lines 189 to 199
ChainTvlRanking ==
    /\ calc.fn = "chain_tvl_ranking" /\ calc.out = None
    /\ calc' = [calc EXCEPT !.out = Some(chain_tvl_ranking(calc.in.chains))]
    /\ DataSourcesIdle

NextCalc ==
    \/ MarketOverviewRatio
    \/ TokenAnalysisRatio
    \/ SentimentDivergence
    \/ MarketDirection
    \/ TrendingCoins
    \/ ProtocolTvl
    \/ DefiTvl
    \/ ChainTvlRanking

SpecCalc == InitCalc /\ [][NextCalc]_vars

----------------------------------------------------------------------------
(* Specifications                                                          *)

Environment ==
    \/ \E d \in TickSteps : Tick(d)
    \/ Start
    \/ StopBegin
    \/ StopEnd
    \/ \E c \in Calls : \E resp \in Responses :
           FetchDone(c, resp[1], resp[2])
    \/ CacheStats

\* Runs over the workload, with every interleaving of calls.
Next ==
    \/ Environment
    \/ \E c \in Calls : \E q \in Workload : CachedCall(c, q[1], q[2])

Spec == Init /\ [][Next]_vars

\* Runs that draw on every query operation, with fewer calls, made one
\* after the other.
NextOps ==
    \/ Environment
    \/ \E c \in Calls : \E q \in Queries :
           /\ started < OpsCalls
           /\ \A b \in Calls : call[b].pc = "idle"
           /\ CachedCall(c, q[1], q[2])

SpecOps == Init /\ [][NextOps]_vars

----------------------------------------------------------------------------
(* analytics.py: the aggregation operations                                *)

MaxOps == 2            \* aggregation operations called during one run

\* The operations called and their arguments.
AggCalls == {<<"market_overview", "">>, <<"token_analysis", "x">>,
             <<"trending_with_context", "">>}

\* The coroutines each operation passes to _gather, in order.
Required(op, arg) ==
    CASE op = "market_overview" ->
           << <<"get_global_market", "">>, <<"get_fear_greed", "">>,
              <<"get_protocols", "">>, <<"get_chain_tvls", "">> >>
      [] op = "token_analysis" ->
           << <<"get_coin_detail", arg>>, <<"get_fear_greed", "">> >>
      [] op = "trending_with_context" ->
           << <<"get_trending", "">>, <<"get_fear_greed", "">>,
              <<"get_global_market", "">> >>

\* The keys of the dict each operation returns, each with the positions
\* (in the gather) of the fetches its value is computed from.  coin_id
\* echoes the argument; defi_tvl_usd comes from the protocol list fetched
\* after the gather.
Sources(op) ==
    CASE op = "market_overview" ->
           [f \in {"total_market_cap_usd", "total_volume_24h_usd",
                   "market_cap_change_24h_pct", "btc_dominance",
                   "eth_dominance", "active_cryptocurrencies",
                   "total_defi_tvl_usd", "mcap_to_tvl_ratio",
                   "fear_greed", "sentiment_divergence"} |->
              CASE f = "total_defi_tvl_usd" -> <<4>>
                [] f = "mcap_to_tvl_ratio" -> <<1, 4>>
                [] f = "fear_greed" -> <<2>>
                [] f = "sentiment_divergence" -> <<2, 1>>
                [] OTHER -> <<1>>]
      [] op = "token_analysis" ->
           [f \in {"coin_id", "name", "symbol", "price_usd",
                   "market_cap_usd", "volume_24h_usd", "volume_mcap_ratio",
                   "price_change_24h_pct", "price_change_7d_pct",
                   "price_change_30d_pct", "ath_usd", "ath_change_pct",
                   "circulating_supply", "total_supply", "defi_tvl_usd",
                   "fear_greed", "sentiment_divergence"} |->
              CASE f \in {"coin_id", "defi_tvl_usd"} -> <<>>
                [] f = "fear_greed" -> <<2>>
                [] f = "sentiment_divergence" -> <<2, 1>>
                [] OTHER -> <<1>>]
      [] op = "trending_with_context" ->
           [f \in {"trending_coins", "market_direction",
                   "market_cap_change_24h_pct", "fear_greed"} |->
              CASE f = "trending_coins" -> <<1>>
                [] f = "fear_greed" -> <<2>>
                [] OTHER -> <<3>>]

\* The loop of token_analysis finds a protocol whose slug, name or symbol
\* is the coin's: a relation between the two payloads.
HasMatch(coin, protocols) == coin = protocols

\* Variant of Combine in which a failed get_protocols of token_analysis
\* empties the fields computed from the coin.
Combine_withdrawn(op, kids, protocols) ==
    [f \in DOMAIN Sources(op) |->
        IF f = "defi_tvl_usd" \/ protocols.pc = "raised"
        THEN <<>>
        ELSE [i \in 1..Len(Sources(op)[f]) |->
                 kids[Sources(op)[f][i]].result]]

\* The dict an operation returns: each key with the payloads its value is
\* computed from.  protocols is the call of get_protocols made by
\* token_analysis (IdleCall for the other operations); its failure leaves
\* defi_tvl_usd null.
Combine(op, kids, protocols) ==
    [f \in DOMAIN Sources(op) |->
        IF f = "defi_tvl_usd"
        THEN IF /\ protocols.pc = "returned"
                /\ HasMatch(kids[1].result, protocols.result)
             THEN <<kids[1].result, protocols.result>>
             ELSE <<>>
        ELSE [i \in 1..Len(Sources(op)[f]) |->
                 kids[Sources(op)[f][i]].result]]

\* Variant of GatherOutcome that collects exceptions as results.
GatherOutcome_collect(kids) ==
    IF \A i \in 1..Len(kids) : kids[i].pc # "awaiting" THEN "done"
    ELSE "pending"

\* Variant of GatherOutcome that is done with the first fetch that returned.
GatherOutcome_first(kids) ==
    IF \E i \in 1..Len(kids) : kids[i].pc = "raised" THEN "raised"
    ELSE IF \E i \in 1..Len(kids) : kids[i].pc = "returned" THEN "done"
    ELSE "pending"

\* asyncio.gather(*coros) without return_exceptions: the first exception
\* of a child is propagated at once, the other children keep running;
\* otherwise the results are delivered when every child has returned.
GatherOutcome(kids) ==
    IF \E i \in 1..Len(kids) : kids[i].pc = "raised" THEN "raised"
    ELSE IF \A i \in 1..Len(kids) : kids[i].pc = "returned" THEN "done"
    ELSE "pending"

\* What the aggregation actions leave alone.
AggFrame ==
    /\ ret' = None /\ stats' = None
    /\ UNCHANGED <<now, client, created, closed, stopPc, call, started,
                   calc, tracker, web>>

\* An operation is called: _gather wraps each coroutine in a task, the
\* operation suspends in the await, and the tasks run one after the other
\* up to their first suspension before any other callback of the loop.
\* A new operation is called once the fetches of the previous one ended.
AggCall(op, arg) ==
    LET req == Required(op, arg)
    IN  /\ agg.n < MaxOps
        /\ agg.pc \in {"idle", "returned", "raised"}
        /\ \A i \in 1..Len(agg.kids) : agg.kids[i].pc # "awaiting"
        /\ agg' = [pc |-> "gathering", op |-> op, arg |-> arg,
                   kids |-> [i \in 1..Len(req) |->
                               CachedEnter(req[i][1], req[i][2],
                                           KeyOf(req[i][1], req[i][2]),
                                           TTLOf(req[i][1]), cache, now,
                                           client, closed)],
                   protocols |-> IdleCall, result |-> None,
                   n |-> agg.n + 1]
        /\ UNCHANGED <<cache, succeeded>>
        /\ AggFrame

\* Variant of KidDone in which the fetches still pending when the gather
\* raised are cancelled: they end without a value and store nothing.
KidDone_cancelled(i, outcome, data) ==
    /\ i \in 1..Len(agg.kids)
    /\ agg.kids[i].pc = "awaiting"
    /\ cache' = IF agg.pc = "raised" THEN cache
                ELSE CacheAfterFetch(cache, agg.kids[i], outcome, data, now)
    /\ agg' = [agg EXCEPT !.kids[i] =
                 IF agg.pc = "raised"
                 THEN [@ EXCEPT !.pc = "raised", !.outcome = "cancelled"]
                 ELSE CallAfterFetch([@ EXCEPT !.outcome = outcome,
                                              !.body = data], outcome, data)]
    /\ succeeded' = IF outcome = "ok" /\ agg.pc # "raised"
                    THEN succeeded \cup {agg.kids[i].key}
                    ELSE succeeded
    /\ AggFrame

\* The awaited request of the i-th fetch of the gather resolves and its
\* _cached runs to its end, whether or not the operation still waits.
KidDone(i, outcome, data) ==
    /\ i \in 1..Len(agg.kids)
    /\ agg.kids[i].pc = "awaiting"
    /\ cache' = CacheAfterFetch(cache, agg.kids[i], outcome, data, now)
    /\ agg' = [agg EXCEPT !.kids[i] =
                 CallAfterFetch([@ EXCEPT !.outcome = outcome,
                                          !.body = data], outcome, data)]
    /\ succeeded' = IF outcome = "ok" THEN succeeded \cup {agg.kids[i].key}
                                      ELSE succeeded
    /\ AggFrame

\* The operation resumes from `await _gather(...)`: the exception of a
\* fetch propagates out of it; otherwise it combines the results, which
\* ends market_overview and trending_with_context, while token_analysis
\* goes on to call get_protocols and ends at once unless that suspends.
AggResume ==
    LET p == CachedEnter("get_protocols", "", KeyOf("get_protocols", ""),
                         TTLOf("get_protocols"), cache, now, client, closed)
    IN  /\ agg.pc = "gathering"
        /\ GatherOutcome(agg.kids) # "pending"
        /\ agg' =
             IF GatherOutcome(agg.kids) = "raised"
             THEN [agg EXCEPT !.pc = "raised"]
             ELSE IF agg.op # "token_analysis"
             THEN [agg EXCEPT !.pc = "returned",
                              !.result = Some(Combine(agg.op, agg.kids,
                                                      IdleCall))]
             ELSE IF p.pc = "awaiting"
             THEN [agg EXCEPT !.pc = "protocols", !.protocols = p]
             ELSE [agg EXCEPT !.pc = "returned", !.protocols = p,
                              !.result = Some(Combine(agg.op, agg.kids, p))]
        /\ UNCHANGED <<cache, succeeded>>
        /\ AggFrame

\* The request of token_analysis's get_protocols resolves: whatever it
\* raises is swallowed, and the operation returns.
ProtocolsDone(outcome, data) ==
    LET p == CallAfterFetch([agg.protocols EXCEPT !.outcome = outcome,
                                                  !.body = data],
                            outcome, data)
    IN  /\ agg.pc = "protocols"
        /\ cache' = CacheAfterFetch(cache, agg.protocols, outcome, data, now)
        /\ agg' = [agg EXCEPT !.pc = "returned", !.protocols = p,
                              !.result = Some(Combine(agg.op, agg.kids, p))]
        /\ succeeded' = IF outcome = "ok"
                        THEN succeeded \cup {agg.protocols.key}
                        ELSE succeeded
        /\ AggFrame

\* The responses the upstreams give to the requests of an operation at
\* time t: the document they serve at that time, or a failure.
Upstream(t) == IF t < _SHORT_TTL THEN 1 ELSE 2
AggResponses(t) == {<<"ok", Upstream(t)>>, <<"timeout", NoData>>}

NextAgg ==
    \/ \E d \in TickSteps : Tick(d)
    \/ Start
    \/ StopBegin
    \/ StopEnd
    \/ \E q \in AggCalls : AggCall(q[1], q[2])
    \/ \E i \in 1..4 : \E resp \in AggResponses(now) :
           KidDone(i, resp[1], resp[2])
    \/ AggResume
    \/ \E resp \in AggResponses(now) : ProtocolsDone(resp[1], resp[2])

SpecAgg == Init /\ [][NextAgg]_vars


----------------------------------------------------------------------------
(* analytics.py: protocol_comparison                                       *)

MaxCmp == 1            \* calls of protocol_comparison during one run
MaxSlugs == 11         \* slugs of the longest list passed

\* The slugs[:10] of protocol_comparison
ComparisonLimit == 10

\* A JSON document that is not of the shape the operation reads: p.get of
\* a detail that is no object, iteration over a list that is no list of
\* objects, raise inside the try.
Shapeless == 3

\* Lists of slugs passed: none, one, two different, one twice, and a list
\* longer than the limit.
SlugLists ==
    {<<>>, <<"x">>, <<"x", "s">>, <<"s", "s">>,
     [i \in 1..MaxSlugs |-> IF i % 3 = 2 THEN "s" ELSE "x"]}

\* Variant of Compared without the truncation.
Compared_all(slugs) == slugs

\* The slugs the loop goes through
Compared(slugs) == Take(slugs, ComparisonLimit)

\* Variant of proto_by_slug that reads the list whatever the call gave.
proto_by_slug_unguarded(protocols) == Some(protocols.result)

\* proto_by_slug after the first try: the protocol list when
\* get_protocols returned one that could be indexed, {} (None here)
\* when the call raised or the comprehension did.
proto_by_slug(protocols) ==
    IF protocols.pc = "returned" /\ protocols.result # Shapeless
    THEN Some(protocols.result)
    ELSE None

\* proto_by_slug has an entry for slug.lower(): a relation between the
\* list and the slug.  The first document lists "x" only.
Listed(slug, list) == ~(slug = "s" /\ list = 1)

\* Variant of Failed that takes every failed fetch for a failure of the
\* slug, also when _cached served the stale entry.
Failed_strict(kid) ==
    \/ kid.pc = "raised"
    \/ kid.result = Shapeless
    \/ kid.outcome \notin {"none", "ok"}

\* The try of a slug ends in its except: get_protocol_detail raised, or
\* reading the payload did.
Failed(kid) == kid.pc = "raised" \/ kid.result = Shapeless

\* The item appended for a slug whose get_protocol_detail call is kid:
\* the record built from the detail payload and from the slug's entry of
\* proto_by_slug (change is <<>> when change_1h, change_1d and change_7d
\* are None), or the error marker.
ItemOf(slug, kid, protocols) ==
    IF Failed(kid)
    THEN [slug |-> slug, error |-> "not found"]
    ELSE [slug |-> slug, detail |-> kid.result,
          change |-> IF /\ proto_by_slug(protocols) # None
                        /\ Listed(slug, proto_by_slug(protocols)[1])
                     THEN proto_by_slug(protocols)
                     ELSE None]

\* The dict protocol_comparison returns
ComparisonResult(slugs, kids, protocols) ==
    LET results == [i \in 1..Len(kids) |->
                      ItemOf(slugs[i], kids[i], protocols)]
    IN  [protocols |-> results, count |-> Len(results)]

\* The loop of protocol_comparison from the state a (kids: the calls of
\* get_protocol_detail made so far, all ended) up to its next suspension:
\* a call that does not suspend ends at once and the loop goes on; after
\* the last slug the operation returns.
RECURSIVE Advance(_, _, _, _, _)
Advance(a, c, t, cl, cls) ==
    LET k == Len(a.kids) + 1
        slug == Compared(a.arg)[k]
        r == CachedEnter("get_protocol_detail", slug,
                         KeyOf("get_protocol_detail", slug),
                         TTLOf("get_protocol_detail"), c, t, cl, cls)
    IN  IF Len(a.kids) = Len(Compared(a.arg))
        THEN [a EXCEPT !.pc = "returned",
                       !.result = Some(ComparisonResult(a.arg, a.kids,
                                                        a.protocols))]
        ELSE IF r.pc = "awaiting"
        THEN [a EXCEPT !.pc = "detail", !.kids = Append(a.kids, r)]
        ELSE Advance([a EXCEPT !.kids = Append(a.kids, r)], c, t, cl, cls)

\* protocol_comparison(slugs) is called, once the previous call ended:
\* it calls get_protocols and, unless that suspends, enters the loop.
CmpCall(slugs) ==
    LET p == CachedEnter("get_protocols", "", KeyOf("get_protocols", ""),
                         TTLOf("get_protocols"), cache, now, client, closed)
        a == [pc |-> "list", op |-> "protocol_comparison", arg |-> slugs,
              kids |-> <<>>, protocols |-> p, result |-> None,
              n |-> agg.n + 1]
    IN  /\ agg.n < MaxCmp
        /\ agg.pc \in {"idle", "returned"}
        /\ agg' = IF p.pc = "awaiting" THEN a
                  ELSE Advance(a, cache, now, client, closed)
        /\ UNCHANGED <<cache, succeeded>>
        /\ AggFrame

\* The request of get_protocols resolves; the operation enters the loop.
ListDone(outcome, data) ==
    LET p == CallAfterFetch([agg.protocols EXCEPT !.outcome = outcome,
                                                  !.body = data],
                            outcome, data)
    IN  /\ agg.pc = "list"
        /\ cache' = CacheAfterFetch(cache, agg.protocols, outcome, data, now)
        /\ agg' = Advance([agg EXCEPT !.protocols = p], cache', now, client,
                          closed)
        /\ succeeded' = IF outcome = "ok"
                        THEN succeeded \cup {agg.protocols.key}
                        ELSE succeeded
        /\ AggFrame

\* The request of the get_protocol_detail the loop waits for resolves;
\* the loop appends the slug's item and goes on.
DetailDone(outcome, data) ==
    LET k == Len(agg.kids)
        r == CallAfterFetch([agg.kids[k] EXCEPT !.outcome = outcome,
                                                !.body = data],
                            outcome, data)
    IN  /\ agg.pc = "detail"
        /\ cache' = CacheAfterFetch(cache, agg.kids[k], outcome, data, now)
        /\ agg' = Advance([agg EXCEPT !.kids[k] = r], cache', now, client,
                          closed)
        /\ succeeded' = IF outcome = "ok"
                        THEN succeeded \cup {agg.kids[k].key}
                        ELSE succeeded
        /\ AggFrame

\* The responses to the requests of protocol_comparison at time t: the
\* document served at that time, a document of another shape, a failure.
CmpResponses(t) ==
    {<<"ok", Upstream(t)>>, <<"ok", Shapeless>>, <<"timeout", NoData>>}

NextCmp ==
    \/ \E d \in TickSteps : Tick(d)
    \/ Start
    \/ StopBegin
    \/ StopEnd
    \/ \E slugs \in SlugLists : CmpCall(slugs)
    \/ \E resp \in CmpResponses(now) : ListDone(resp[1], resp[2])
    \/ \E resp \in CmpResponses(now) : DetailDone(resp[1], resp[2])

SpecCmp == Init /\ [][NextCmp]_vars


----------------------------------------------------------------------------
(* data_sources.py: the lifecycle, with start() called more than once      *)

MaxRestarts == 2       \* calls of start() during a run of the lifecycle

Restart == StartWithin(MaxRestarts)

\* Runs of start() and stop() in any order around the calls of one query.
NextLife ==
    \/ \E d \in TickSteps : Tick(d)
    \/ Restart
    \/ StopBegin
    \/ StopEnd
    \/ \E c \in Calls : CachedCall(c, "get_coin_detail", "x")
    \/ \E c \in Calls : \E resp \in AggResponses(now) :
           FetchDone(c, resp[1], resp[2])

SpecLife == Init /\ [][NextLife]_vars


----------------------------------------------------------------------------
(* tracker.py: the event log                                               *)

MaxLogged == 5         \* calls of log_request during one run

\* The sequences of requests a run logs: in stream s every s-th request
\* comes from agent "a", the others from agent "b"; the endpoints
\* alternate and every fifth request carries no user agent.
Streams == {1, 2, 3}
RequestOf(stream, k) ==
    [fingerprint |-> IF k % stream = 0 THEN "a" ELSE "b",
     endpoint |-> IF k % 2 = 0 THEN "/api/v1/intel" ELSE "/api/v1/stats",
     user_agent |-> IF k % 5 = 0 THEN "" ELSE "agent/1.0"]

\* Variant of Retain that keeps the oldest events.
Retain_oldest(events, max) ==
    IF Len(events) > max THEN SubSeq(events, 1, max) ELSE events

\* The truncation of log_request: events[-max:] once there are more than
\* max of them.
Retain(events, max) ==
    IF Len(events) > max
    THEN SubSeq(events, Len(events) - max + 1, Len(events))
    ELSE events

\* _AgentProfile(fingerprint=fingerprint, first_seen=now)
_AgentProfile(fingerprint, first_seen) ==
    [fingerprint |-> fingerprint, first_seen |-> first_seen, last_seen |-> 0,
     request_count |-> 0, endpoints_used |-> <<>>, tools_used |-> <<>>,
     user_agents |-> {}]

\* endpoints_used[endpoint] = endpoints_used.get(endpoint, 0) + 1
Counted1(d, key) ==
    [k \in DOMAIN d \cup {key} |->
       IF k = key THEN (IF key \in DOMAIN d THEN d[key] ELSE 0) + 1
       ELSE d[k]]

\* The tracker after log_request(fingerprint, endpoint, None, user_agent)
\* when the clock reads t.  n, kept with the event, is its arrival number.
log_request(tr, fingerprint, endpoint, user_agent, t) ==
    LET ev == [ts |-> t, endpoint |-> endpoint, params |-> <<>>,
               fingerprint |-> fingerprint, n |-> tr.logged + 1]
        agent == IF fingerprint \in DOMAIN tr._agents
                 THEN tr._agents[fingerprint]
                 ELSE _AgentProfile(fingerprint, t)
        updated == [agent EXCEPT
                      !.last_seen = t,
                      !.request_count = @ + 1,
                      !.endpoints_used = Counted1(@, endpoint),
                      !.user_agents = IF user_agent # "" THEN @ \cup {user_agent}
                                      ELSE @]
    IN  [tr EXCEPT
           !._events = Retain(Append(@, ev), tr._max_events),
           !._agents = [f \in DOMAIN @ \cup {fingerprint} |->
                          IF f = fingerprint THEN updated ELSE @[f]],
           !.logged = @ + 1]

\* The event log_request stores for the k-th request of a stream at time t
EventOf(stream, k, t) ==
    [ts |-> t, endpoint |-> RequestOf(stream, k).endpoint, params |-> <<>>,
     fingerprint |-> RequestOf(stream, k).fingerprint, n |-> k]

\* The tracker that has logged the first n requests of a stream at time t
\* since its construction.
TrackerAfter(stream, n, t) ==
    LET max == AgentTracker(stream)._max_events
        kept == IF n > max THEN max ELSE n
        by(f) == {k \in 1..n : RequestOf(stream, k).fingerprint = f}
        seen == {f \in {"a", "b"} : by(f) # {}}
        endpoints(f) == {RequestOf(stream, k).endpoint : k \in by(f)}
    IN  [_events |-> [i \in 1..kept |-> EventOf(stream, n - kept + i, t)],
         _agents |->
            [f \in seen |->
               [fingerprint |-> f, first_seen |-> t, last_seen |-> t,
                request_count |-> Cardinality(by(f)),
                endpoints_used |->
                   [e \in endpoints(f) |->
                      Cardinality({k \in by(f) :
                                     RequestOf(stream, k).endpoint = e})],
                tools_used |-> <<>>,
                user_agents |->
                   {RequestOf(stream, k).user_agent : k \in by(f)} \ {""}]],
         _max_events |-> max,
         logged |-> n, from |-> n, stream |-> stream]

\* The numbers of requests logged before the run observed: none, one, and
\* numbers around the room of the log.
LoggedBefore == {0, 1} \cup {10 * 1000 + d : d \in -3..2}

\* The tracker as constructed, or as a run of log_request left it.
InitTracker ==
    /\ Constructed
    /\ calc = NoCalc
    /\ agg = NoAgg
    /\ web = WebStart
    /\ tracker \in {TrackerAfter(s, n, 0) : s \in Streams, n \in LoggedBefore}

\* log_request is called with the next request of the stream.
LogRequest ==
    LET req == RequestOf(tracker.stream, tracker.logged + 1)
    IN  /\ tracker.logged - tracker.from < MaxLogged
        /\ tracker' = log_request(tracker, req.fingerprint, req.endpoint,
                                  req.user_agent, now)
        /\ UNCHANGED <<cache, now, client, created, closed, stopPc, call,
                       started, ret, stats, succeeded, calc, agg, web>>

NextTracker == LogRequest

SpecTracker == InitTracker /\ [][NextTracker]_vars


----------------------------------------------------------------------------
(* main.py: sessions, agent_visits and stats                               *)

MaxRequests == 4       \* requests served during one run

Agents == {"a", "b"}         \* fingerprints of the agents that call
Topics == {"defi-yield"}     \* topics asked for

\* A dict with d[key] set to val
Put(d, key, val) ==
    [k \in DOMAIN d \cup {key} |-> IF k = key THEN val ELSE d[k]]

\* get_session(context_id): the session of a context id that is given
\* (context_id is <<>> for None) and known, else None.
get_session(w, context_id) ==
    IF context_id # None /\ context_id[1] \in DOMAIN w.sessions
    THEN Some(w.sessions[context_id[1]])
    ELSE None

\* create_session(agent_id, topic) at time t.  The context id is new: it
\* is the number of ids made so far plus one (uuid4 is taken not to repeat).
create_session(w, agent_id, topic, t) ==
    [w EXCEPT
       !.sessions = Put(@, w.issued + 1,
                        [agent_id |-> agent_id, topic |-> topic,
                         created |-> t, queries |-> 1, depth |-> 1,
                         accumulated_value |-> One]),
       !.stats.sessions_created = @ + 1,
       !.issued = @ + 1]

\* The lines the three endpoints share: the agent is added to agent_visits
\* when it is new, and its visit is counted.
Visited(w, agent_id, t) ==
    LET known == agent_id \in DOMAIN w.agent_visits
        visits == IF known THEN w.agent_visits[agent_id].visits ELSE 0
        first_seen == IF known THEN w.agent_visits[agent_id].first_seen ELSE t
    IN  [w EXCEPT
           !.agent_visits = Put(@, agent_id, [first_seen |-> first_seen,
                                              visits |-> visits + 1]),
           !.stats.unique_agents = IF known THEN @ ELSE @ + 1]

\* list_topics, lines 348 to 360
list_topics(w, agent_id, t) ==
    LET v == Visited([w EXCEPT !.stats.total_requests = @ + 1], agent_id, t)
        counted ==
           IF v.agent_visits[agent_id].visits > 1
           THEN [v EXCEPT !.stats.returning_agents =
                   Cardinality({a \in DOMAIN v.agent_visits :
                                  v.agent_visits[a].visits > 1})]
           ELSE v
    IN  create_session(counted, agent_id, "discovery", t)

\* get_intel, lines 392 to 409
get_intel(w, agent_id, topic, ctx, t) ==
    LET v == Visited([w EXCEPT !.stats.total_requests = @ + 1,
                               !.stats.hooks_triggered = @ + 1],
                     agent_id, t)
    IN  IF get_session(v, ctx) # None
        THEN [v EXCEPT !.sessions[ctx[1]] =
                [@ EXCEPT !.queries = @ + 1,
                          !.accumulated_value = @ + (One \div 2),
                          !.topic = topic]]
        ELSE create_session(v, agent_id, topic, t)

\* deep_analysis, lines 455 to 475; topic is <<>> for None.
deep_analysis(w, agent_id, context_id, topic, t) ==
    LET v == Visited([w EXCEPT !.stats.total_requests = @ + 1,
                               !.stats.deep_queries = @ + 1,
                               !.stats.hooks_triggered = @ + 1],
                     agent_id, t)
        made == create_session(v, agent_id,
                               IF topic # None THEN topic[1]
                               ELSE "deep-analysis", t)
    IN  IF get_session(v, Some(context_id)) # None
        THEN [v EXCEPT !.sessions[context_id] =
                [@ EXCEPT !.queries = @ + 1,
                          !.depth = @ + 1,
                          !.accumulated_value = @ + One,
                          !.topic = IF topic # None THEN topic[1] ELSE @]]
        ELSE [made EXCEPT !.sessions[made.issued].depth = 2]

\* What the requests leave alone.
WebFrame ==
    UNCHANGED <<cache, now, client, created, closed, stopPc, call, started,
                ret, stats, succeeded, calc, agg, tracker>>

\* The context ids a request may carry: those made so far, and 0, which
\* is no session's.
ContextIds == 0..web.issued

ListTopics(agent_id) ==
    /\ web.stats.total_requests < MaxRequests
    /\ web' = list_topics(web, agent_id, now)
    /\ WebFrame

GetIntel(agent_id, topic, ctx) ==
    /\ web.stats.total_requests < MaxRequests
    /\ web' = get_intel(web, agent_id, topic, ctx, now)
    /\ WebFrame

DeepAnalysis(agent_id, context_id, topic) ==
    /\ web.stats.total_requests < MaxRequests
    /\ web' = deep_analysis(web, agent_id, context_id, topic, now)
    /\ WebFrame

\* agent_status, premium_info: the request is counted, nothing else.
OtherRequest ==
    /\ web.stats.total_requests < MaxRequests
    /\ web' = [web EXCEPT !.stats.total_requests = @ + 1]
    /\ WebFrame

NextWeb ==
    \/ \E a \in Agents : ListTopics(a)
    \/ \E a \in Agents : \E tp \in Topics :
         \E ctx \in {None} \cup {Some(c) : c \in ContextIds} :
           GetIntel(a, tp, ctx)
    \/ \E a \in Agents : \E c \in ContextIds :
         \E tp \in {None} \cup {Some(x) : x \in Topics} :
           DeepAnalysis(a, c, tp)
    \/ OtherRequest

SpecWeb == Init /\ [][NextWeb]_vars


----------------------------------------------------------------------------
(* Properties                                                              *)

\* The query call that ended in the step just taken, and whether one did.
Ended == ret # None
R == ret[1]

\* A step in which a query operation is called, and the call it starts
\* (ended already, or suspended in a slot).
IsCall == started' = started + 1
NewCall ==
    IF ret' # None THEN ret'[1]
    ELSE call'[CHOOSE c \in Calls : call'[c] # call[c]]

\* The fetch of an ended call failed: an upstream failure, or the exception
\* raised before sending when there is no usable client.
FetchFailed(r) == r.outcome \in Failures \cup {"no_client"}

\* C1: a call of _cached for a key whose entry exists and is fresh
\* (now - ts < ttl) returns that entry's payload, sends no request, does
\* not suspend and leaves the whole cache unchanged; so a read within TTL
\* of a successful fetch of the key sends no request.
C1_FreshHit ==
    [][IsCall =>
        \A k \in DOMAIN cache :
            (NewCall.key = k /\ now - cache[k].ts < cache[k].ttl) =>
                /\ ret' # None
                /\ ret'[1].pc = "returned"
                /\ ret'[1].result = cache[k].data
                /\ ret'[1].net = 0
                /\ ~ret'[1].susp
                /\ call' = call
                /\ cache' = cache]_vars

\* A read of a key strictly after, and within TTL of, its successful fetch
\* has just been served from the cache.
C1_Witness ==
    /\ Ended
    /\ R.outcome = "none" /\ R.pc = "returned"
    /\ R.key \in succeeded
    /\ now > cache[R.key].ts

\* C2 as stated: a call that read a stale entry and whose fetch failed
\* returns the payload it read, raises nothing, leaves the cache unchanged,
\* and afterwards the entry of its key is stale (so cache_stats counts it
\* as stale).
C2_AsStated ==
    [][(ret' # None /\ ret'[1].entry # None /\ FetchFailed(ret'[1])) =>
        /\ ret'[1].pc = "returned"
        /\ ret'[1].result = ret'[1].entry[1].data
        /\ cache' = cache
        /\ ret'[1].key \in DOMAIN cache'
        /\ ~(now' - cache'[ret'[1].key].ts < cache'[ret'[1].key].ttl)]_vars

\* C2 amended: as C2, but the entry of the key is stale afterwards when it
\* is still the entry the call read, that is, unless a concurrent call for
\* the same key stored a new entry while this call's fetch was in flight.
C2_StaleWhileRevalidate ==
    [][(ret' # None /\ ret'[1].entry # None /\ FetchFailed(ret'[1])) =>
        /\ ret'[1].pc = "returned"
        /\ ret'[1].result = ret'[1].entry[1].data
        /\ cache' = cache
        /\ ret'[1].key \in DOMAIN cache'
        /\ (cache'[ret'[1].key] = ret'[1].entry[1] =>
              ~(now' - cache'[ret'[1].key].ts < cache'[ret'[1].key].ttl))]_vars

\* A call has just returned the stale payload after an upstream failure,
\* and the entry it read is still the one in the cache.
C2_Witness ==
    /\ Ended
    /\ R.outcome \in Failures
    /\ R.entry # None /\ R.pc = "returned"
    /\ cache[R.key] = R.entry[1]
    /\ now - cache[R.key].ts >= cache[R.key].ttl

\* C3: a call that found no entry for its key and whose fetch failed raises
\* the failure, returns no value and creates no entry.
C3_ColdFailure ==
    [][(ret' # None /\ ret'[1].entry = None /\ FetchFailed(ret'[1])) =>
        /\ ret'[1].pc = "raised"
        /\ ret'[1].result = NoData
        /\ cache' = cache]_vars

\* A call for a key that has no entry has just raised an upstream failure.
C3_Witness ==
    /\ Ended
    /\ R.outcome \in Failures
    /\ R.entry = None /\ R.pc = "raised"
    /\ R.key \notin DOMAIN cache

\* The TTL of each query type of the workload, as the specification of the
\* cache states it.
TierTTL(op) == IF op = "get_coin_detail" THEN 300 ELSE 600

\* C4: a successful fetch stores, for its key, the fetched payload with the
\* time of completion and the TTL of the query type, and the call returns
\* the fetched payload.
C4_StoreOnSuccess ==
    [][(ret' # None /\ ret'[1].outcome = "ok") =>
        /\ ret'[1].pc = "returned"
        /\ ret'[1].result = ret'[1].body
        /\ ret'[1].key \in DOMAIN cache'
        /\ cache'[ret'[1].key] = [data |-> ret'[1].body, ts |-> now',
                                  ttl |-> TierTTL(ret'[1].op)]]_vars

\* A call has just replaced a stale entry by a different payload, fetched
\* at a later time.
C4_Witness ==
    /\ Ended
    /\ R.outcome = "ok" /\ R.entry # None
    /\ R.entry[1].data # R.result
    /\ R.entry[1].ts < now
    /\ cache[R.key].data = R.result

\* C5: an entry exists for a key only if a fetch for that key completed
\* successfully before; the only step that creates an entry is the
\* successful completion of a fetch for that very key (not a failed fetch,
\* a hit, cache_stats, start() or stop()).
C5_EntriesOnlyAfterSuccess ==
    [][/\ DOMAIN cache' \subseteq succeeded'
       /\ \A k \in (DOMAIN cache') \ (DOMAIN cache) :
             ret' # None /\ ret'[1].outcome = "ok" /\ ret'[1].key = k]_vars

\* A fetch for a key without entry has just failed while another key has an
\* entry, after a start(): the failed key still has no entry.
C5_Witness ==
    /\ Ended
    /\ R.outcome \in Failures
    /\ R.key \notin DOMAIN cache
    /\ DOMAIN cache # {}
    /\ created > 0

\* C6: the set of cache keys never shrinks, whatever step is taken.
C6_KeysNeverShrink ==
    [][DOMAIN cache \subseteq DOMAIN cache']_vars

\* An entry is still there after stop() completed and a later refresh of
\* it failed.
C6_Witness ==
    /\ Ended
    /\ FetchFailed(R)
    /\ R.key \in DOMAIN cache
    /\ client = 0 /\ created > 0

\* The ended call of the step was a fresh hit; it could send nothing
\* because the client was absent or closed when it was called.
WasHit(r) ==
    r.entry # None /\ ~r.susp /\ now - r.entry[1].ts < r.entry[1].ttl
HadNoClient(r) == ~r.susp /\ (client = 0 \/ client \in closed)

\* No retry: a suspended call has sent one request, and the step that
\* resolves its fetch ends the call.
NoRetry ==
    /\ \A c \in Calls : call'[c].pc = "awaiting" => call'[c].net = 1
    /\ \A c \in Calls :
          (call[c].pc = "awaiting" /\ call'[c] # call[c]) =>
              ret' # None /\ call'[c].pc = "idle"

\* C7 as stated: a call sends no request on a fresh hit and exactly one
\* otherwise, and a failed attempt ends the call without a retry.
C7_AsStated ==
    [][/\ ret' # None =>
             ret'[1].net = IF WasHit(ret'[1]) THEN 0 ELSE 1
       /\ NoRetry]_vars

\* C7 amended: a call sends at most one request: none on a fresh hit, none
\* when the client is absent or closed (the fetch fails before anything is
\* sent), exactly one otherwise; a failed attempt ends the call without a
\* retry.
C7_AtMostOneRequest ==
    [][/\ ret' # None =>
             /\ ret'[1].net <= 1
             /\ ret'[1].net = IF WasHit(ret'[1]) \/ HadNoClient(ret'[1])
                              THEN 0 ELSE 1
       /\ NoRetry]_vars

\* A call has just ended on an upstream failure after its one request.
C7_Witness ==
    /\ Ended
    /\ R.outcome \in Failures
    /\ R.net = 1

\* The cache keys of the two TTL tiers.
ShortKeys == {"global", "fng"} \cup {"coin:" \o a : a \in Args}
                 \cup {"prices:" \o a : a \in Args}
LongKeys == {"protocols", "chains", "trending"}
                \cup {"protocol:" \o a : a \in Args}

\* C8: in every state the entry of 'global', 'coin:<id>', 'prices:<ids>'
\* and 'fng' has TTL 300, and the entry of 'protocols', 'chains',
\* 'trending' and 'protocol:<slug>' has TTL 600.
C8_TTLByKey ==
    \A k \in DOMAIN cache :
        /\ k \in ShortKeys => cache[k].ttl = 300
        /\ k \in LongKeys => cache[k].ttl = 600

\* A protocol detail entry has just been stored, or a stale sentiment entry
\* has just been replaced.
C8_Witness ==
    /\ Ended
    /\ R.outcome = "ok"
    /\ \/ R.key = "protocol:s"
       \/ R.key = "fng" /\ R.entry # None /\ cache["fng"].ts > R.entry[1].ts

\* The entry of key k in cache c, as an optional value.
EntryAt(c, k) == IF k \in DOMAIN c THEN <<c[k]>> ELSE <<>>

\* Queries that differ in type or parameter have different keys.
KeysDistinct ==
    \A q1 \in Queries : \A q2 \in Queries :
        q1 # q2 => KeyOf(q1[1], q1[2]) # KeyOf(q2[1], q2[2])

\* C9: queries that differ in type or parameter have different keys, and a
\* step changes no entry but the one of the call that ends in it: the
\* entry of every other key, and of every other query, is left as it was.
C9_KeyIsolation ==
    [][/\ KeysDistinct
       /\ \A k \in (DOMAIN cache) \cup (DOMAIN cache') :
             EntryAt(cache', k) # EntryAt(cache, k) =>
                 ret' # None /\ ret'[1].key = k
       /\ (ret' # None /\ cache' # cache) =>
             \A q \in Queries :
                 q # <<ret'[1].op, ret'[1].arg>> =>
                     EntryAt(cache', KeyOf(q[1], q[2])) =
                         EntryAt(cache, KeyOf(q[1], q[2]))]_vars

\* A fetch for coin 's' has just stored its entry while a call for
\* protocol 'x' is in flight and coin 'x' has its own entry.
C9_Witness ==
    /\ Ended
    /\ R.op = "get_coin_detail" /\ R.arg = "s" /\ R.outcome = "ok"
    /\ "coin:x" \in DOMAIN cache
    /\ "coin:s" \in DOMAIN cache
    /\ cache["coin:x"].data # cache["coin:s"].data
    /\ \E c \in Calls :
          /\ call[c].pc = "awaiting"
          /\ call[c].op = "get_protocol_detail" /\ call[c].arg = "x"

\* C10: cache_stats returns total_keys = number of entries, fresh = number
\* of entries with now - ts < ttl, stale = total_keys - fresh, both counts
\* non-negative, and changes neither the cache nor the client.
C10_CacheStats ==
    [][stats' # None =>
        LET total == Cardinality(DOMAIN cache)
            nfresh == Cardinality({k \in DOMAIN cache :
                                      now - cache[k].ts < cache[k].ttl})
        IN  /\ stats'[1].total_keys = total
            /\ stats'[1].fresh = nfresh
            /\ stats'[1].stale = total - nfresh
            /\ stats'[1].fresh + stats'[1].stale = stats'[1].total_keys
            /\ stats'[1].fresh >= 0 /\ stats'[1].stale >= 0
            /\ cache' = cache
            /\ client' = client /\ closed' = closed
            /\ created' = created]_vars

\* cache_stats has just reported a cache holding fresh and stale entries.
C10_Witness ==
    /\ stats # None
    /\ stats[1].fresh >= 1
    /\ stats[1].stale >= 1
    /\ stats[1].total_keys = Cardinality(DOMAIN cache)

\* C11: no single-flight and last writer wins.  A call for a key that is
\* missing or stale sends its own request even while another call for the
\* same key is in flight; a fetch that succeeds after the entry of its key
\* was replaced by a concurrent fetch stores its own payload over it; and
\* the caller receives the payload of its own fetch.
C11_LastWriterWins ==
    [][/\ IsCall =>
             \A c \in Calls :
                 (/\ call[c].pc = "awaiting"
                  /\ call[c].key = NewCall.key
                  /\ ~(/\ NewCall.key \in DOMAIN cache
                       /\ now - cache[NewCall.key].ts
                              < cache[NewCall.key].ttl)
                  /\ client # 0 /\ client \notin closed) =>
                     /\ ret' = None
                     /\ NewCall.pc = "awaiting" /\ NewCall.net = 1
       /\ (/\ ret' # None /\ ret'[1].outcome = "ok"
           /\ EntryAt(cache, ret'[1].key) # ret'[1].entry) =>
             /\ ret'[1].result = ret'[1].body
             /\ cache'[ret'[1].key].data = ret'[1].body
             /\ cache'[ret'[1].key].ts = now']_vars

\* Two calls read the same key as missing and both sent a request; the one
\* that started later has just stored its payload, the one that started
\* first (slot 1) is still in flight and will write last.
C11_Witness ==
    /\ Ended
    /\ R.outcome = "ok" /\ R.entry = None /\ R.susp
    /\ call[1].pc = "awaiting"
    /\ call[1].key = R.key /\ call[1].entry = None /\ call[1].net = 1
    /\ cache[R.key].data = R.body

\* C12: a request is sent only while the client is started: the client
\* exists, was created by a start() and has not been closed by stop(); a
\* query called while the client is absent ends without sending anything.
C12_LifecycleBracket ==
    [][IsCall =>
        /\ (NewCall.net > 0 \/ NewCall.susp) =>
               /\ created > 0
               /\ client # 0
               /\ client \notin closed
        /\ client = 0 =>
               /\ ret' # None
               /\ ret'[1].net = 0 /\ ~ret'[1].susp]_vars

\* After a start(), a successful fetch and a completed stop(), a query for
\* the same key has just ended without sending anything.
C12_Witness ==
    /\ Ended
    /\ R.outcome = "no_client" /\ R.net = 0
    /\ client = 0 /\ created > 0 /\ closed # {}
    /\ R.key \in succeeded

\* The call of a derived metric that has returned, its inputs and value.
Computed(fn) == calc.fn = fn /\ calc.out # None
In == calc.in
Out == calc.out[1]
Abs(x) == IF x < 0 THEN -x ELSE x

\* C16 as stated: mcap_to_tvl_ratio is total market cap divided by the sum
\* of TVL over all chains (to the two decimals kept) exactly when that sum
\* is > 0, and null for every other sum: zero, negative, empty list.
C16_AsStated ==
    Computed("mcap_tvl_ratio") =>
        LET sum == SumTvl(In.chains)
        IN  /\ (Out # None) <=> (sum > 0)
            /\ sum > 0 =>
                 Abs(Out[1] * sum - In.total_mcap * One) <= 50 * sum

\* C17 as stated: volume_mcap_ratio is the 24h volume divided by the market
\* cap (to the four decimals kept) exactly when the market cap is > 0, and
\* null for every other market cap: zero, negative or absent.
C17_AsStated ==
    Computed("vol_mcap_ratio") =>
        LET mcap == IF In.market_cap = None THEN 0 ELSE In.market_cap[1]
            vol == IF In.total_volume = None THEN 0 ELSE In.total_volume[1]
        IN  /\ (Out # None) <=> (mcap > 0)
            /\ mcap > 0 => 2 * Abs(Out[1] * mcap - vol * One) <= mcap

\* The spec's price_norm, clamp(change_pct, -10, 10) / 10, times 10.
Clamp10(c) == Max(-10 * One, Min(10 * One, c))

Signals == {"greedy_despite_drop", "fearful_despite_rise", "aligned"}

\* C18 as stated: the dict holds fear_greed_normalized = (v - 50) / 50,
\* price_action_normalized = clamp(c, -10, 10) / 10 and divergence_score =
\* their difference rounded to 3 decimals, with a signal and a description,
\* and divide-then-clamp equals clamp-then-divide.
C18_AsStated ==
    (Computed("_sentiment_divergence") /\ In.fng_value \in 0..100) =>
        /\ 50 * Out.fear_greed_normalized = (In.fng_value - 50) * One
        /\ 10 * Out.price_action_normalized = Clamp10(In.price_change_pct)
        /\ Out.divergence_score % 10 = 0
        /\ Abs(500 * Out.divergence_score
               - (10 * (In.fng_value - 50) * One
                  - 50 * Clamp10(In.price_change_pct))) <= 2500
        /\ Out.signal \in Signals /\ Out.description # ""
        /\ 10 * price_norm(In.price_change_pct)
             = Clamp10(In.price_change_pct)

\* C18: as above, except that price_action_normalized is the clamped and
\* divided price change rounded to 3 decimals (fear_greed_normalized is a
\* multiple of 0.02, which the rounding leaves alone).
C18_Returns ==
    (Computed("_sentiment_divergence") /\ In.fng_value \in 0..100) =>
        /\ 50 * Out.fear_greed_normalized = (In.fng_value - 50) * One
        /\ Out.price_action_normalized % 10 = 0
        /\ Abs(10 * Out.price_action_normalized
               - Clamp10(In.price_change_pct)) <= 50
        /\ Out.divergence_score % 10 = 0
        /\ Abs(500 * Out.divergence_score
               - (10 * (In.fng_value - 50) * One
                  - 50 * Clamp10(In.price_change_pct))) <= 2500
        /\ Out.signal \in Signals /\ Out.description # ""
        /\ 10 * price_norm(In.price_change_pct)
             = Clamp10(In.price_change_pct)

\* A price change of 1.234 percent: 0.1234 is returned as 0.123.
C18_Witness ==
    /\ Computed("_sentiment_divergence")
    /\ In.fng_value = 50 /\ In.price_change_pct = 12340
    /\ Out.price_action_normalized = 1230
    /\ Out.divergence_score = -1230

\* C19: the signal is greedy_despite_drop exactly when the divergence score
\* is > 0.4, fearful_despite_rise exactly when it is < -0.4 and aligned
\* otherwise, the scores 0.4 and -0.4 included; (50, 0), (90, -8) and
\* (10, 8) give the values named; the dict depends on the inputs only.
C19_Signal ==
    Computed("_sentiment_divergence") =>
        /\ (Out.signal = "greedy_despite_drop")
             <=> (10 * Out.divergence_score > 4 * One)
        /\ (Out.signal = "fearful_despite_rise")
             <=> (10 * Out.divergence_score < -4 * One)
        /\ (Out.signal = "aligned")
             <=> /\ 10 * Out.divergence_score <= 4 * One
                 /\ 10 * Out.divergence_score >= -4 * One
        /\ (In.fng_value = 50 /\ In.price_change_pct = 0) =>
             Out.divergence_score = 0 /\ Out.signal = "aligned"
        /\ (In.fng_value = 90 /\ In.price_change_pct = -8 * One) =>
             /\ 10 * Out.divergence_score = 16 * One
             /\ Out.signal = "greedy_despite_drop"
        /\ (In.fng_value = 10 /\ In.price_change_pct = 8 * One) =>
             /\ 10 * Out.divergence_score = -16 * One
             /\ Out.signal = "fearful_despite_rise"
        /\ Out = _sentiment_divergence(In.fng_value, In.price_change_pct)

\* A score of exactly 0.4 came out as aligned.
C19_Witness ==
    /\ Computed("_sentiment_divergence")
    /\ 10 * Out.divergence_score = 4 * One
    /\ Out.signal = "aligned"
    /\ In.price_change_pct # 0

\* C20: price_action_normalized lies in [-1, 1], is 1.0 from +10 percent
\* on and -1.0 from -10 percent down; for a sentiment value in 0..100 the
\* divergence score lies in [-2, 2].
C20_Clamping ==
    Computed("_sentiment_divergence") =>
        /\ Out.price_action_normalized >= -One
        /\ Out.price_action_normalized <= One
        /\ In.price_change_pct >= 10 * One =>
             Out.price_action_normalized = One
        /\ In.price_change_pct <= -10 * One =>
             Out.price_action_normalized = -One
        /\ In.fng_value \in 0..100 =>
             /\ Out.divergence_score >= -2 * One
             /\ Out.divergence_score <= 2 * One

\* +50 percent came out as 1.0 and the score at the end of its range.
C20_Witness ==
    /\ Computed("_sentiment_divergence")
    /\ In.price_change_pct = 50 * One /\ In.fng_value = 0
    /\ Out.price_action_normalized = One
    /\ Out.divergence_score = -2 * One

\* An aggregation operation is called, or ends, in the step.
OpCalled == agg'.n = agg.n + 1
OpEnds ==
    /\ agg.pc \in {"gathering", "protocols"}
    /\ agg'.pc \in {"returned", "raised"}
Kids(a) == {a.kids[i] : i \in 1..Len(a.kids)}

\* The required fetches of each operation, by cache key.
RequiredKeys(op, arg) ==
    CASE op = "market_overview" -> {"global", "fng", "protocols", "chains"}
      [] op = "token_analysis" -> {"coin:" \o arg, "fng"}
      [] op = "trending_with_context" -> {"trending", "fng", "global"}

\* The fields of each result structure; OptionalFields may be null.
ResultFields(op) ==
    CASE op = "market_overview" ->
           {"total_market_cap_usd", "total_volume_24h_usd",
            "market_cap_change_24h_pct", "btc_dominance", "eth_dominance",
            "active_cryptocurrencies", "total_defi_tvl_usd",
            "mcap_to_tvl_ratio", "fear_greed", "sentiment_divergence"}
      [] op = "token_analysis" ->
           {"coin_id", "name", "symbol", "price_usd", "market_cap_usd",
            "volume_24h_usd", "volume_mcap_ratio", "price_change_24h_pct",
            "price_change_7d_pct", "price_change_30d_pct", "ath_usd",
            "ath_change_pct", "circulating_supply", "total_supply",
            "defi_tvl_usd", "fear_greed", "sentiment_divergence"}
      [] op = "trending_with_context" ->
           {"trending_coins", "market_direction",
            "market_cap_change_24h_pct", "fear_greed"}
OptionalFields == {"defi_tvl_usd"}

\* A result is complete: every field is there, and every field other than
\* coin_id and the optional ones is computed from payloads of the fetches.
Complete(op, result) ==
    /\ DOMAIN result = ResultFields(op)
    /\ \A f \in ResultFields(op) :
         /\ \A j \in 1..Len(result[f]) : result[f][j] \in Payloads
         /\ f \notin OptionalFields \cup {"coin_id"} => result[f] # <<>>

C14_AsStated ==
    [][OpEnds => \A k \in Kids(agg') : k.pc # "awaiting"]_vars

\* C14: the required fetches are launched together in the step of the
\* call; the operation goes on to combine, and returns a result, only when
\* every one of them has returned; it ends with an error only when one of
\* them has raised, whether or not the others are still in flight.
C14_JoinBeforeCombine ==
    [][/\ OpCalled =>
            /\ {k.key : k \in Kids(agg')} = RequiredKeys(agg'.op, agg'.arg)
            /\ \A k \in Kids(agg') :
                 \/ k.pc = "awaiting" /\ k.net = 1
                 \/ k.pc \in {"returned", "raised"} /\ ~k.susp
       /\ (/\ agg.pc = "gathering"
           /\ agg'.pc \in {"protocols", "returned"}) =>
            \A k \in Kids(agg') : k.pc = "returned"
       /\ (OpEnds /\ agg'.pc = "returned") =>
            /\ \A k \in Kids(agg') : k.pc = "returned"
            /\ agg'.protocols.pc # "awaiting"
       /\ (OpEnds /\ agg'.pc = "raised") =>
            \E k \in Kids(agg') : k.pc = "raised"]_vars

\* An operation has ended with the error of a request that failed, while
\* another of its requests is still in flight.
C14_Witness ==
    /\ agg.pc = "raised"
    /\ \E k \in Kids(agg) : k.pc = "raised" /\ k.susp
    /\ \E k \in Kids(agg) : k.pc = "awaiting"

\* C15 as stated: every request an operation sends is sent before the
\* operation waits for any of its fetches, the request for the protocol
\* list of token_analysis included.
C15_AsStated ==
    [][agg'.protocols.net > agg.protocols.net => agg.pc # "gathering"]_vars

\* C21: market_direction is bullish exactly when the 24h market-cap change
\* is > 1, bearish exactly when it is < -1 and neutral otherwise: at
\* exactly 1 and exactly -1, and when the change is missing (taken as 0).
C21_MarketDirection ==
    Computed("market_direction") =>
        LET c == IF In.change = None THEN 0 ELSE In.change[1]
        IN  /\ (Out = "bullish") <=> (c > One)
            /\ (Out = "bearish") <=> (c < -One)
            /\ (Out = "neutral") <=> (c >= -One /\ c <= One)
            /\ In.change \in {None, Some(One), Some(-One)} => Out = "neutral"

\* A change of exactly 1 percent came out as neutral.
C21_Witness ==
    /\ Computed("market_direction")
    /\ In.change = Some(One)
    /\ Out = "neutral"

\* C22: the output list has min(15, n) items, and its i-th item is the
\* projection of the i-th entry of the upstream list.
C22_TrendingTruncation ==
    (Computed("trending_coins") /\ In.coins # None) =>
        LET upstream == In.coins[1]
        IN  /\ Len(Out) = (IF Len(upstream) < 15 THEN Len(upstream) ELSE 15)
            /\ \A i \in 1..Len(Out) :
                 /\ DOMAIN Out[i] = TrendingFields
                 /\ \A f \in TrendingFields :
                      Out[i][f] =
                        IF upstream[i] # None /\ f \in DOMAIN upstream[i][1]
                        THEN <<upstream[i][1][f]>>
                        ELSE <<>>

\* A list of 17 entries came out as its first 15, the 15th in its place.
C22_Witness ==
    /\ Computed("trending_coins")
    /\ In.coins # None /\ Len(In.coins[1]) = 17
    /\ Len(Out) = 15
    /\ Out[15]["id"] = <<150>> /\ Out[1]["id"] = <<10>>

\* A key of currentChainTvls is flagged.
Flagged(k) ==
    \E w \in {borrowed, staking, pool2, vesting} : Contains(lower(k), w)

\* The sum of the values of a set of entries, booleans as 1 or 0.
RECURSIVE SumOf(_)
SumOf(items) ==
    IF items = {} THEN 0
    ELSE LET it == CHOOSE x \in items : TRUE
         IN  NumberOf(it[2]) + SumOf(items \ {it})

TvlEntries ==
    IF In.currentChainTvls = None THEN {} ELSE In.currentChainTvls[1]

\* C25 as stated: tvl_usd is the sum of exactly the values that are
\* numbers and whose key is not flagged.
C25_AsStated ==
    Computed("tvl_usd") =>
        Out = SumOf({it \in TvlEntries :
                       it[2].kind = "number" /\ ~Flagged(it[1])})

\* C25: tvl_usd is, to two decimals, the sum of the values that are numbers
\* or booleans (true counting as 1) and whose key is not flagged; a map
\* with only flagged keys gives 0.
C25_TvlUsd ==
    Computed("tvl_usd") =>
        LET picked == {it \in TvlEntries :
                         /\ it[2].kind \in {"number", "boolean"}
                         /\ ~Flagged(it[1])}
        IN  /\ Out % 100 = 0
            /\ Abs(Out - SumOf(picked)) <= 50
            /\ (\A it \in TvlEntries : Flagged(it[1])) => Out = 0

\* Ethereum 100, Ethereum-borrowed 40 and Polygon-staking 10 gave 100.
C25_Witness ==
    /\ Computed("tvl_usd")
    /\ Cardinality(TvlEntries) = 3
    /\ \E it \in TvlEntries : Contains(it[1], borrowed) /\ it[2] = Num(40 * One)
    /\ \E it \in TvlEntries : Contains(it[1], staking) /\ it[2] = Num(10 * One)
    /\ \E it \in TvlEntries : ~Flagged(it[1]) /\ it[2] = Num(100 * One)
    /\ Out = 100 * One

\* The first protocol of the list whose field equals, lower-cased, the
\* coin's field (an absent field is the empty text): its place, 0 if none.
FirstOn(pfield, cfield) ==
    LET hits == {i \in 1..Len(In.protocols) :
                    LowerOrEmpty(In.protocols[i], pfield)
                      = LowerOrEmpty(In.coin, cfield)}
    IN  IF hits = {} THEN 0 ELSE CHOOSE i \in hits : \A j \in hits : i <= j

\* C28 as stated: defi_tvl_usd is the TVL of the first protocol matching on
\* slug if there is one, else of the first matching on name, else of the
\* first matching on symbol.
C28_AsStated ==
    Computed("defi_tvl") =>
        LET pick == IF FirstOn("slug", "id") # 0 THEN FirstOn("slug", "id")
                    ELSE IF FirstOn("name", "name") # 0
                    THEN FirstOn("name", "name")
                    ELSE FirstOn("symbol", "symbol")
        IN  Out = IF pick = 0 THEN <<>>
                  ELSE IF "tvl" \in DOMAIN In.protocols[pick]
                  THEN <<In.protocols[pick].tvl>>
                  ELSE <<>>

\* The TVL the i-th chain of the upstream list is ranked by, and the place
\* a stable descending sort gives it: behind every chain of greater TVL
\* and behind the earlier chains of equal TVL.
Key(i) == IF "tvl" \in DOMAIN In.chains[i] THEN In.chains[i].tvl ELSE 0
Place(i) ==
    1 + Cardinality({j \in 1..Len(In.chains) :
                        \/ Key(j) > Key(i)
                        \/ Key(j) = Key(i) /\ j < i})
Shown(i) ==
    [f \in {"name", "tvl", "tokenSymbol", "gecko_id"} |->
       IF f \in DOMAIN In.chains[i] THEN <<In.chains[i][f]>> ELSE <<>>]

\* C29: chain_tvl_ranking returns min(20, n) items, and the chain whose
\* place in the stable descending order by TVL is r <= 20 is the r-th item,
\* so equal TVLs keep the upstream order and every item is the projection
\* of one chain of the upstream list, no chain twice.
C29_StableRanking ==
    Computed("chain_tvl_ranking") =>
        /\ Len(Out.chains) = Min(20, Len(In.chains))
        /\ \A i \in 1..Len(In.chains) :
              Place(i) <= 20 => Out.chains[Place(i)] = Shown(i)

\* More than 20 chains, out of order upstream, with two chains of equal
\* TVL both shown, the earlier one first.
C29_Witness ==
    /\ Computed("chain_tvl_ranking")
    /\ Len(In.chains) > 20
    /\ \E i, j \in 1..Len(In.chains) : i < j /\ Key(i) < Key(j)
    /\ \E i, j \in 1..Len(In.chains) :
          /\ i < j /\ Key(i) = Key(j) /\ Place(j) <= 20
          /\ Out.chains[Place(i)].name = <<i>>
          /\ Out.chains[Place(j)].name = <<j>>
          /\ Place(i) < Place(j)

\* C30: total_tvl is the sum of the TVL of every chain of the upstream
\* list, a chain without TVL counting 0, however many chains are shown.
C30_TotalOverAll ==
    Computed("chain_tvl_ranking") =>
        Out.total_tvl = SumOf({<<i, Num(Key(i))>> : i \in 1..Len(In.chains)})

\* More than 20 chains, the total greater than the sum of the TVLs shown.
C30_Witness ==
    /\ Computed("chain_tvl_ranking")
    /\ Len(In.chains) > 20
    /\ Len(Out.chains) = 20
    /\ \E i \in 1..Len(In.chains) : "tvl" \notin DOMAIN In.chains[i]
    /\ Out.total_tvl >
         SumOf({<<r, Num(IF Out.chains[r].tvl = <<>> THEN 0
                         ELSE Out.chains[r].tvl[1])>> : r \in 1..20})

\* protocol_comparison has returned; what it returned, and the
\* get_protocol_detail calls it made.
Compares == agg.op = "protocol_comparison"
CmpReturned == Compares /\ agg.pc = "returned"
Items == agg.result[1].protocols
IsError(item) == DOMAIN item = {"slug", "error"}
IsFull(item) == DOMAIN item = {"slug", "detail", "change"}

\* C23: protocol_comparison never raises and is suspended only in a
\* fetch that is pending; when it has returned there are min(10,
\* len(slugs)) items, the i-th with the i-th slug passed, each a full
\* record or an error marker, and count is their number.
C23_OneItemPerSlug ==
    Compares =>
        /\ agg.pc \in {"list", "detail", "returned"}
        /\ agg.pc = "list" => agg.protocols.pc = "awaiting"
        /\ agg.pc = "detail" => agg.kids[Len(agg.kids)].pc = "awaiting"
        /\ agg.pc = "returned" =>
              /\ Len(Items) = Min(10, Len(agg.arg))
              /\ \A i \in 1..Len(Items) :
                    /\ Items[i].slug = agg.arg[i]
                    /\ IsError(Items[i]) \/ IsFull(Items[i])
              /\ agg.result[1].count = Len(Items)

\* A list of more than 10 slugs with repetitions, the protocol list and
\* some detail fetches failed, full records and error markers returned.
C23_Witness ==
    /\ CmpReturned
    /\ Len(agg.arg) > 10
    /\ agg.protocols.pc = "raised"
    /\ \E i, j \in 1..Len(Items) :
          /\ agg.kids[i].pc = "raised" /\ IsError(Items[i])
          /\ IsFull(Items[j])

\* C24: the item of a slug is the error marker exactly when its own
\* get_protocol_detail raised (its fetch failed and the call had read no
\* entry of the key) or its own payload could not be read; otherwise it is
\* the record of its own payload, whatever happened to the other slugs.
C24_Isolation ==
    CmpReturned =>
        \A i \in 1..Len(Items) :
            /\ IsError(Items[i]) <=>
                  \/ FetchFailed(agg.kids[i]) /\ agg.kids[i].entry = None
                  \/ agg.kids[i].result = Shapeless
            /\ ~IsError(Items[i]) =>
                  /\ IsFull(Items[i])
                  /\ Items[i].detail = agg.kids[i].result
                  /\ Items[i].detail \in Payloads

\* Two slugs: a full record, then the error marker of the slug whose
\* fetch failed.
C24_Witness ==
    /\ CmpReturned
    /\ agg.arg = <<"x", "s">>
    /\ IsFull(Items[1]) /\ agg.kids[1].outcome = "ok"
    /\ IsError(Items[2]) /\ agg.kids[2].pc = "raised"

C27_LookupBestEffort ==
    [][(/\ OpEnds
        /\ agg'.op = "token_analysis"
        /\ \A k \in Kids(agg') : k.pc = "returned") =>
        /\ agg'.pc = "returned"
        /\ DOMAIN agg'.result[1] = ResultFields("token_analysis")
        /\ (\/ agg'.protocols.pc # "returned"
            \/ agg'.kids[1].result # agg'.protocols.result) =>
              agg'.result[1].defi_tvl_usd = <<>>
        /\ \A f \in ResultFields("token_analysis") \ {"defi_tvl_usd"} :
              agg'.result[1][f] =
                 [i \in 1..Len(Sources("token_analysis")[f]) |->
                    agg'.kids[Sources("token_analysis")[f][i]].result]]_vars

\* token_analysis has returned a complete result, defi_tvl_usd null, after
\* its get_protocols failed with nothing cached.
C27_Witness ==
    /\ agg.pc = "returned" /\ agg.op = "token_analysis"
    /\ agg.protocols.pc = "raised" /\ agg.protocols.outcome = "timeout"
    /\ agg.result[1].defi_tvl_usd = <<>>
    /\ Complete(agg.op, agg.result[1])

\* C31: a fetch of a fan-out that is still pending when its operation has
\* raised runs to its end like any other: it ends with the outcome of its
\* request, and when that is a success it returns the payload and stores
\* it with the time and TTL of its key; and every fetch of an operation
\* called while the entry of its key is fresh returns that entry's payload
\* without a request.
C31_SiblingsKeepRunning ==
    [][/\ agg.pc = "raised" =>
            \A i \in 1..Len(agg.kids) :
               (agg.kids[i].pc = "awaiting" /\ agg'.kids[i].pc # "awaiting") =>
                  /\ agg'.kids[i].outcome \in {"ok"} \cup Failures
                  /\ agg'.kids[i].outcome = "ok" =>
                       /\ agg'.kids[i].pc = "returned"
                       /\ agg'.kids[i].key \in DOMAIN cache'
                       /\ cache'[agg'.kids[i].key] =
                            [data |-> agg'.kids[i].body, ts |-> now,
                             ttl |-> TTLOf(agg'.kids[i].op)]
       /\ OpCalled =>
            \A k \in Kids(agg') :
               (k.key \in DOMAIN cache
                  /\ now - cache[k.key].ts < cache[k.key].ttl) =>
                    /\ k.pc = "returned" /\ k.net = 0
                    /\ k.result = cache[k.key].data]_vars

\* An operation has raised on the failure of one fetch; a sibling that
\* was sent with it succeeded and its entry is in the cache, fresh.
C31_Witness ==
    /\ agg.pc = "raised"
    /\ \E k \in Kids(agg) : FetchFailed(k) /\ k.pc = "raised" /\ k.susp
    /\ \E k \in Kids(agg) :
          /\ k.susp /\ k.outcome = "ok"
          /\ k.key \in DOMAIN cache
          /\ cache[k.key].data = k.body
          /\ now - cache[k.key].ts < cache[k.key].ttl

\* C32 as stated: a call that returns through the failure fallback returns
\* the payload the cache holds for its key at the moment it returns, also
\* when a concurrent call replaced the entry during its fetch.
C32_AsStated ==
    [][(ret' # None /\ ret'[1].pc = "returned" /\ FetchFailed(ret'[1])) =>
        /\ ret'[1].key \in DOMAIN cache'
        /\ ret'[1].result = cache'[ret'[1].key].data]_vars

\* C33 as stated: a call raises the failure of its fetch only if the cache
\* holds no entry for its key at the moment the fetch fails.
C33_AsStated ==
    [][(ret' # None /\ ret'[1].pc = "raised" /\ FetchFailed(ret'[1])) =>
        ret'[1].key \notin DOMAIN cache']_vars

\* The clients that are open: created by start() and not closed.
Open == {i \in 1..created : i \notin closed}

\* C34 as stated: at most one client is open, and once the instance is
\* stopped (no client held, no stop() in progress) every client start()
\* created has been closed.
C34_AsStated ==
    /\ Cardinality(Open) <= 1
    /\ (client = 0 /\ stopPc = "idle") => Open = {}

\* C35 as stated: a query called while no client is held, and not served
\* by a fresh entry, raises; it does not return a payload.
C35_AsStated ==
    [][(/\ IsCall
        /\ client = 0
        /\ ~(/\ NewCall.key \in DOMAIN cache
             /\ fresh(cache[NewCall.key], now))) =>
        /\ ret' # None
        /\ ret'[1].pc = "raised"]_vars

\* A field of the protocol and the coin's field are both there, not
\* empty, and equal when lower-cased.
SameText(p, pfield, cfield) ==
    /\ pfield \in DOMAIN p /\ cfield \in DOMAIN In.coin
    /\ p[pfield] # <<>>
    /\ lower(p[pfield]) = lower(In.coin[cfield])

\* C36 as stated: defi_tvl_usd is non-null only if some protocol of the
\* list has the coin's id as slug, the coin's name as name or the coin's
\* symbol as symbol, the text compared being non-empty.
C36_AsStated ==
    Computed("defi_tvl") =>
        (Out # <<>> =>
            \E i \in 1..Len(In.protocols) :
                \/ SameText(In.protocols[i], "slug", "id")
                \/ SameText(In.protocols[i], "name", "name")
                \/ SameText(In.protocols[i], "symbol", "symbol"))

\* C37: the log holds at most 10,000 events: all those logged while there
\* are no more, the 10,000 last logged otherwise, in the order of their
\* arrival and as they were logged; and the request_count of an agent is
\* the number of all the requests logged with its fingerprint.
C37_BoundedLog ==
    LET events == tracker._events
        first == tracker.logged - Len(events)
    IN  /\ Len(events) <= 10000
        /\ Len(events) = Min(tracker.logged, 10000)
        /\ \A i \in 1..Len(events) :
              /\ events[i].n = first + i
              /\ events[i].fingerprint =
                    RequestOf(tracker.stream, first + i).fingerprint
              /\ events[i].endpoint =
                    RequestOf(tracker.stream, first + i).endpoint
        /\ \A f \in {"a", "b"} :
              Cardinality({k \in 1..tracker.logged :
                             RequestOf(tracker.stream, k).fingerprint = f})
                = IF f \in DOMAIN tracker._agents
                  THEN tracker._agents[f].request_count
                  ELSE 0

\* More than 10,000 requests were logged, and an agent has made more
\* requests than the log retains events of it.
C37_Witness ==
    /\ tracker.logged > 10000 /\ tracker.from < 10000
    /\ Len(tracker._events) = 10000
    /\ tracker._events[1].n > 1
    /\ \E f \in DOMAIN tracker._agents :
          tracker._agents[f].request_count >
             Cardinality({i \in 1..Len(tracker._events) :
                            tracker._events[i].fingerprint = f})

\* C38 as stated: every session has 1 <= depth <= queries.
C38_AsStated ==
    \A c \in DOMAIN web.sessions :
        /\ 1 <= web.sessions[c].depth
        /\ web.sessions[c].depth <= web.sessions[c].queries

\* C39 as stated: unique_agents is the number of fingerprints in
\* agent_visits, sessions_created the number of sessions, and
\* returning_agents the number of agents with more than one visit.
C39_AsStated ==
    /\ web.stats.unique_agents = Cardinality(DOMAIN web.agent_visits)
    /\ web.stats.sessions_created = Cardinality(DOMAIN web.sessions)
    /\ web.stats.returning_agents =
          Cardinality({a \in DOMAIN web.agent_visits :
                         web.agent_visits[a].visits > 1})

TypeOK ==
    /\ now \in 0..MaxTime
    /\ client \in 0..created
    /\ \A k \in DOMAIN cache : cache[k].data \in Payloads \cup {Shapeless}

====
